---- MODULE Spec2Model ----
(***************************************************************************)
(* Model of the transcription-output pipeline of whisper-webui-diarisation *)
(* (src/src/utils.py, src/app.py).                                         *)
(*                                                                         *)
(* Conventions.                                                            *)
(*   - A Python str is a sequence of one-character strings.                *)
(*   - Python None (a missing dict key read with .get(k, None)) is NoneVal.*)
(*   - Times are whole milliseconds.                                       *)
(*   - os.linesep is the POSIX line separator.                             *)
(***************************************************************************)
EXTENDS Integers, Sequences, FiniteSets, TLC

\* ------------------------------------------------------------------ bounds
MaxTime == 2
MaxWords == 2
MaxTokens == 3
MaxTextLen == 4

\* ----------------------------------------------------------------- strings
NoneVal == <<"None">>
NL == <<"\n">>
Whitespace == {" ", "\n"}
DigitChars == <<"0", "1", "2", "3", "4", "5", "6", "7", "8", "9">>

RECURSIVE LStrip(_)
LStrip(s) == IF s # <<>> /\ Head(s) \in Whitespace THEN LStrip(Tail(s)) ELSE s

RECURSIVE RStrip(_)
RStrip(s) ==
    IF s # <<>> /\ s[Len(s)] \in Whitespace THEN RStrip(SubSeq(s, 1, Len(s) - 1)) ELSE s

\* str.strip()
Strip(s) == RStrip(LStrip(s))

\* sep.join(parts)
RECURSIVE Join(_, _)
Join(parts, sep) ==
    IF parts = <<>> THEN <<>>
    ELSE IF Len(parts) = 1 THEN parts[1]
    ELSE parts[1] \o sep \o Join(Tail(parts), sep)

\* ''.join(parts)
RECURSIVE Flatten(_)
Flatten(parts) == IF parts = <<>> THEN <<>> ELSE Head(parts) \o Flatten(Tail(parts))

\* str(n) of a natural number
RECURSIVE Str(_)
Str(n) == IF n < 10 THEN <<DigitChars[n + 1]>> ELSE Str(n \div 10) \o <<DigitChars[(n % 10) + 1]>>

\* f"{n:0<width>d}"
RECURSIVE ZeroPad(_, _)
ZeroPad(s, width) == IF Len(s) < width THEN ZeroPad(<<"0">> \o s, width) ELSE s

ArrowAt(s, i) == i + 2 <= Len(s) /\ s[i] = "-" /\ s[i + 1] = "-" /\ s[i + 2] = ">"

\* text.replace('-->', '->') on s[lo..hi]: two occurrences of '-->' cannot
\* overlap, so every occurrence loses its first character.
RECURSIVE ReplaceArrowIn(_, _, _)
ReplaceArrowIn(s, lo, hi) ==
    IF lo > hi THEN <<>>
    ELSE IF lo = hi THEN (IF ArrowAt(s, lo) THEN <<>> ELSE <<s[lo]>>)
    ELSE LET mid == (lo + hi) \div 2
         IN ReplaceArrowIn(s, lo, mid) \o ReplaceArrowIn(s, mid + 1, hi)

ReplaceArrow(s) == ReplaceArrowIn(s, 1, Len(s))

\* -------------------------------------------------------- format_timestamp
\* A variant of format_timestamp that emits the hours only when forced.
FormatTimestampForcedOnly(ms, always_include_hours, fractionalSeperator) ==
    LET hours == ms \div 3600000
        ms1 == ms - hours * 3600000
        minutes == ms1 \div 60000
        ms2 == ms1 - minutes * 60000
        seconds == ms2 \div 1000
        milliseconds == ms2 - seconds * 1000
        hours_marker == IF always_include_hours
                        THEN ZeroPad(Str(hours), 2) \o <<":">> ELSE <<>>
    IN hours_marker \o ZeroPad(Str(minutes), 2) \o <<":">> \o ZeroPad(Str(seconds), 2)
         \o fractionalSeperator \o ZeroPad(Str(milliseconds), 3)

\* utils.py:37-51, on whole milliseconds (round() is then the identity).
format_timestamp(ms, always_include_hours, fractionalSeperator) ==
    LET hours == ms \div 3600000
        ms1 == ms - hours * 3600000
        minutes == ms1 \div 60000
        ms2 == ms1 - minutes * 60000
        seconds == ms2 \div 1000
        milliseconds == ms2 - seconds * 1000
        hours_marker == IF always_include_hours \/ hours > 0
                        THEN ZeroPad(Str(hours), 2) \o <<":">> ELSE <<>>
    IN hours_marker \o ZeroPad(Str(minutes), 2) \o <<":">> \o ZeroPad(Str(seconds), 2)
         \o fractionalSeperator \o ZeroPad(Str(milliseconds), 3)

\* A variant of round that rounds a tie upwards.
RoundHalfUp(quarters) == (quarters + 2) \div 4

\* utils.py:39  round(seconds * 1000.0), for a product of quarters/4: the
\* nearest whole number, and of two equally near ones the even one.
round(quarters) ==
    LET floor == quarters \div 4
        rem == quarters % 4
    IN IF rem < 2 THEN floor
       ELSE IF rem > 2 THEN floor + 1
       ELSE IF floor % 2 = 0 THEN floor ELSE floor + 1

\* utils.py:37-51 as a whole: the assertion, the rounding, the formatting.
\* The float seconds * 1000.0 is given in quarters of a millisecond.
FormatTimestampCall(quarters, always_include_hours, fractionalSeperator) ==
    IF quarters < 0
    THEN [raised |-> TRUE, out |-> <<>>]
    ELSE [raised |-> FALSE,
          out |-> format_timestamp(round(quarters), always_include_hours,
                                   fractionalSeperator)]

\* ------------------------------------------------------------ __join_words
\* utils.py:341-343: a plain str entry counts its own length.
WordEntry(word) == [word |-> word, length |-> Len(word), isdict |-> FALSE]

\* A variant of NeedsLineBreak that also breaks an empty line.
NeedsLineBreakAlsoEmpty(current_length, word_length, maxLineWidth) ==
    current_length + word_length > maxLineWidth

\* utils.py:345
NeedsLineBreak(current_length, word_length, maxLineWidth) ==
    current_length > 0 /\ current_length + word_length > maxLineWidth

\* utils.py:332-357
RECURSIVE JoinWordsLoop(_, _, _, _, _)
JoinWordsLoop(entries, maxLineWidth, lines, current_line, current_length) ==
    IF entries = <<>>
    THEN Join(IF Len(current_line) > 0 THEN Append(lines, current_line) ELSE lines, NL)
    ELSE LET e == Head(entries)
             brk == NeedsLineBreak(current_length, e.length, maxLineWidth)
         IN JoinWordsLoop(Tail(entries), maxLineWidth,
                          IF brk THEN Append(lines, current_line) ELSE lines,
                          (IF brk THEN <<>> ELSE current_line) \o e.word,
                          (IF brk THEN 0 ELSE current_length) + e.length)

\* utils.py:328-357.  maxLineWidth None is modelled as a negative width (the
\* code treats the two alike); " ".join raises TypeError on dict entries.
JoinWords(entries, maxLineWidth) ==
    IF maxLineWidth < 0
    THEN IF \E i \in DOMAIN entries : entries[i].isdict
         THEN [raised |-> TRUE, text |-> <<>>]
         ELSE [raised |-> FALSE,
               text |-> Join([i \in DOMAIN entries |-> entries[i].word], <<" ">>)]
    ELSE [raised |-> FALSE, text |-> JoinWordsLoop(entries, maxLineWidth, <<>>, <<>>, 0)]

\* ------------------------------------------------------------ process_text
\* textwrap.TextWrapper._split on text without tabs or hyphens: maximal runs
\* of whitespace and of non-whitespace; whitespace characters become spaces.
MergeChunks(left, right) ==
    IF left # <<>> /\ right # <<>>
       /\ ((left[Len(left)][1] = " ") <=> (right[1][1] = " "))
    THEN SubSeq(left, 1, Len(left) - 1) \o <<left[Len(left)] \o right[1]>> \o Tail(right)
    ELSE left \o right

RECURSIVE SplitChunksIn(_, _, _)
SplitChunksIn(text, lo, hi) ==
    IF lo > hi THEN <<>>
    ELSE IF lo = hi THEN <<<<IF text[lo] \in Whitespace THEN " " ELSE text[lo]>>>>
    ELSE LET mid == (lo + hi) \div 2
         IN MergeChunks(SplitChunksIn(text, lo, mid), SplitChunksIn(text, mid + 1, hi))

SplitChunks(text) == SplitChunksIn(text, 1, Len(text))

IsBlank(chunk) == Strip(chunk) = <<>>

\* textwrap: "while chunks: if cur_len + l <= width: cur_line.append(chunks.pop())"
RECURSIVE FillLine(_, _, _, _)
FillLine(chunks, width, cur_line, cur_len) ==
    IF chunks # <<>> /\ cur_len + Len(Head(chunks)) <= width
    THEN FillLine(Tail(chunks), width, Append(cur_line, Head(chunks)),
                  cur_len + Len(Head(chunks)))
    ELSE [chunks |-> chunks, cur_line |-> cur_line, cur_len |-> cur_len]

\* A variant of HandleLongWord that puts the whole word on the line.
HandleLongWordWhole(f, width) ==
    [chunks |-> Tail(f.chunks),
     cur_line |-> Append(f.cur_line, Head(f.chunks)),
     cur_len |-> f.cur_len + Len(Head(f.chunks))]

\* textwrap.TextWrapper._handle_long_word with break_long_words=True
HandleLongWord(f, width) ==
    LET space_left == IF width < 1 THEN 1 ELSE width - f.cur_len
        chunk == Head(f.chunks)
    IN [chunks |-> <<SubSeq(chunk, space_left + 1, Len(chunk))>> \o Tail(f.chunks),
        cur_line |-> Append(f.cur_line, SubSeq(chunk, 1, space_left)),
        cur_len |-> f.cur_len + space_left]

\* textwrap.TextWrapper._wrap_chunks with drop_whitespace=True, no indent
RECURSIVE WrapChunks(_, _, _)
WrapChunks(chunks, width, lines) ==
    IF chunks = <<>> THEN lines
    ELSE LET c1 == IF IsBlank(Head(chunks)) /\ lines # <<>> THEN Tail(chunks) ELSE chunks
             Long(f1) == IF f1.chunks # <<>> /\ Len(Head(f1.chunks)) > width
                         THEN HandleLongWord(f1, width) ELSE f1
             Line(cur_line) == IF Len(cur_line) > 0 /\ IsBlank(cur_line[Len(cur_line)])
                               THEN SubSeq(cur_line, 1, Len(cur_line) - 1) ELSE cur_line
             Emit(line) == IF line # <<>> THEN Append(lines, Flatten(line)) ELSE lines
             Rest(f2) == WrapChunks(f2.chunks, width, Emit(Line(f2.cur_line)))
         IN Rest(Long(FillLine(c1, width, <<>>, 0)))

\* A variant of process_text that strips the text when there is no budget.
ProcessTextStripping(text, maxLineWidth) ==
    IF maxLineWidth < 0 THEN [raised |-> FALSE, text |-> Strip(text)]
    ELSE IF maxLineWidth = 0 THEN [raised |-> TRUE, text |-> <<>>]
    ELSE [raised |-> FALSE,
          text |-> Join(WrapChunks(SplitChunks(text), maxLineWidth, <<>>), NL)]

\* utils.py:359-364.  textwrap.wrap raises ValueError for width <= 0.
process_text(text, maxLineWidth) ==
    IF maxLineWidth < 0 THEN [raised |-> FALSE, text |-> text]
    ELSE IF maxLineWidth = 0 THEN [raised |-> TRUE, text |-> <<>>]
    ELSE [raised |-> FALSE,
          text |-> Join(WrapChunks(SplitChunks(text), maxLineWidth, <<>>), NL)]

\* ------------------------------------------ __subtitle_preprocessor_iterator
\* A variant of Cue that ends where it starts.
CueEndAtStart(start, end, text) == [start |-> start, end |-> start, text |-> text]

Cue(start, end, text) == [start |-> start, end |-> end, text |-> text]

UOpen == <<"<", "u", ">">>
UClose == <<"<", "/", "u", ">">>

\* A variant of HighlightWord that drops the leading whitespace.
HighlightWordStripped(word) == UOpen \o LStrip(word) \o UClose

\* utils.py:301  re.sub(r"^(\s*)(.*)$", r"\1<u>\2</u>", word), for a word
\* that holds no line break after its leading whitespace.
HighlightWord(word) ==
    LET rest == LStrip(word)
        lead == SubSeq(word, 1, Len(word) - Len(rest))
    IN lead \o UOpen \o rest \o UClose

\* A variant of HighlightEntries that counts the markup of the highlighted
\* word.
HighlightEntriesWithMarkup(text_words, i) ==
    [j \in DOMAIN text_words |->
        [word |-> IF j = i THEN HighlightWord(text_words[j]) ELSE text_words[j],
         length |-> IF j = i THEN Len(HighlightWord(text_words[j])) ELSE Len(text_words[j]),
         isdict |-> TRUE]]

\* utils.py:299-307: the entries handed to __join_words for highlight cue i
HighlightEntries(text_words, i) ==
    [j \in DOMAIN text_words |->
        [word |-> IF j = i THEN HighlightWord(text_words[j]) ELSE text_words[j],
         length |-> Len(text_words[j]),
         isdict |-> TRUE]]

\* utils.py:269-273: words.insert(0, {...}) on the segment's own list
InsertSpeakerWord(words, subtitle_start, speaker) ==
    <<[start |-> subtitle_start, end |-> subtitle_start,
       word |-> <<"(">> \o speaker \o <<")">>]>> \o words

\* utils.py:286
FillerNeeded(last, start) == last # start

\* A variant of NextLast that leaves the cursor at the word's start.
NextLastAtStart(start, end) == start

\* utils.py:310
NextLast(start, end) == end

\* utils.py:312
FinalFillerNeeded(last, subtitle_end) == last # subtitle_end

\* A variant of HighlightCues that yields no cue for a zero-length word.
HighlightCuesNoEmpty(start, end, text) ==
    IF start = end THEN <<>> ELSE <<Cue(start, end, text)>>

\* utils.py:295-309: the cues yielded for the highlighted word i
HighlightCues(start, end, text) == <<Cue(start, end, text)>>

\* utils.py:282-310
RECURSIVE HighlightLoop(_, _, _, _, _, _, _)
HighlightLoop(words, text_words, i, last, subtitle_text, maxLineWidth, cues) ==
    IF i > Len(words) THEN [cues |-> cues, last |-> last, raised |-> FALSE]
    ELSE LET start == words[i].start
             end == words[i].end
             filler == IF FillerNeeded(last, start)
                       THEN <<Cue(last, start, subtitle_text)>> ELSE <<>>
             Yield(hl) ==
                 IF hl.raised
                 THEN [cues |-> cues \o filler, last |-> last, raised |-> TRUE]
                 ELSE HighlightLoop(words, text_words, i + 1, NextLast(start, end),
                                    subtitle_text, maxLineWidth,
                                    cues \o filler \o HighlightCues(start, end, hl.text))
         IN Yield(JoinWords(HighlightEntries(text_words, i), maxLineWidth))

\* utils.py:245-262: a segment without word timing
SubtitleNoWords(segment, maxLineWidth) ==
    LET speaker == segment.longest_speaker
    IN IF maxLineWidth < 0 /\ speaker = NoneVal
       THEN [cues |-> <<Cue(segment.start, segment.end, segment.text)>>,
             segment |-> segment, raised |-> FALSE]
       ELSE LET text == Strip(segment.text)
                full == IF speaker # NoneVal
                        THEN <<"(">> \o speaker \o <<")", " ">> \o text ELSE text
                Yield(p) == [cues |-> IF p.raised THEN <<>>
                                      ELSE <<Cue(segment.start, segment.end, p.text)>>,
                             segment |-> segment, raised |-> p.raised]
            IN Yield(process_text(full, maxLineWidth))

\* utils.py:264-326: a segment with word timing.  "segment" in the result is
\* the segment as the call leaves it.
SubtitleWithWords(segment, maxLineWidth, highlight_words) ==
    LET subtitle_start == segment.start
        subtitle_end == segment.end
        speaker == segment.longest_speaker
        words == IF speaker # NoneVal
                 THEN InsertSpeakerWord(segment.words, subtitle_start, speaker)
                 ELSE segment.words
        text_words == [i \in DOMAIN words |-> words[i].word]
        after == [segment EXCEPT !.words = words]
        Highlighted(r, subtitle_text) ==
            [cues |-> IF ~r.raised /\ FinalFillerNeeded(r.last, subtitle_end)
                      THEN Append(r.cues, Cue(r.last, subtitle_end, subtitle_text))
                      ELSE r.cues,
             segment |-> after, raised |-> r.raised]
        Yield(subtitle_text) ==
            IF highlight_words
            THEN Highlighted(HighlightLoop(words, text_words, 1, subtitle_start,
                                           subtitle_text, maxLineWidth, <<>>),
                             subtitle_text)
            ELSE [cues |-> <<Cue(subtitle_start, subtitle_end, subtitle_text)>>,
                  segment |-> after, raised |-> FALSE]
    IN Yield(JoinWords([i \in DOMAIN words |-> WordEntry(text_words[i])],
                       maxLineWidth).text)

\* utils.py:239-326: the body of the loop for one segment
SubtitleSegment(segment, maxLineWidth, highlight_words) ==
    IF Len(segment.words) = 0
    THEN SubtitleNoWords(segment, maxLineWidth)
    ELSE SubtitleWithWords(segment, maxLineWidth, highlight_words)

\* utils.py:238-326: the generator run to its end (or to the exception it
\* raises).  cues[i] are the cues yielded for segment i, in order; segments
\* are the segments as the run leaves them.
RECURSIVE SubtitleIterator(_, _, _, _, _)
SubtitleIterator(segments, i, maxLineWidth, highlight_words, cues) ==
    IF i > Len(segments) THEN [cues |-> cues, segments |-> segments, raised |-> FALSE]
    ELSE LET Rest(r, segs) ==
                 IF r.raised
                 THEN [cues |-> Append(cues, r.cues), segments |-> segs, raised |-> TRUE]
                 ELSE SubtitleIterator(segs, i + 1, maxLineWidth, highlight_words,
                                       Append(cues, r.cues))
             Step(r) == Rest(r, [segments EXCEPT ![i] = r.segment])
         IN Step(SubtitleSegment(segments[i], maxLineWidth, highlight_words))

\* --------------------------------------------------------------- renderers
\* utils.py:196-205: one VTT block
VttBlock(cue) ==
    format_timestamp(cue.start, FALSE, <<".">>) \o <<" ", "-", "-", ">", " ">>
      \o format_timestamp(cue.end, FALSE, <<".">>) \o NL
      \o ReplaceArrow(cue.text) \o NL \o NL

\* A variant of SrtBlock that numbers the blocks from 0.
SrtBlockFromZero(i, cue) ==
    Str(i - 1) \o NL
      \o format_timestamp(cue.start, TRUE, <<",">>) \o <<" ", "-", "-", ">", " ">>
      \o format_timestamp(cue.end, TRUE, <<",">>) \o NL
      \o ReplaceArrow(cue.text) \o NL \o NL

\* utils.py:225-236: one SRT block
SrtBlock(i, cue) ==
    Str(i) \o NL
      \o format_timestamp(cue.start, TRUE, <<",">>) \o <<" ", "-", "-", ">", " ">>
      \o format_timestamp(cue.end, TRUE, <<",">>) \o NL
      \o ReplaceArrow(cue.text) \o NL \o NL

WebVtt == <<"W", "E", "B", "V", "T", "T">>

\* utils.py:38 (assert seconds >= 0), reached from the block of a cue
NegativeTime(cue) == cue.start < 0 \/ cue.end < 0

\* the first segment one of whose cues fails that assertion, 0 if none
FirstFailing(cues) ==
    LET bad == {s \in DOMAIN cues : \E c \in DOMAIN cues[s] : NegativeTime(cues[s][c])}
    IN IF bad = {} THEN 0 ELSE CHOOSE s \in bad : \A o \in bad : s <= o

\* the cues of one segment before the first that fails the assertion
BeforeFailing(cs) ==
    LET bad == {c \in DOMAIN cs : NegativeTime(cs[c])}
    IN IF bad = {} THEN cs
       ELSE SubSeq(cs, 1, (CHOOSE c \in bad : \A o \in bad : c <= o) - 1)

\* What a writer has taken from the generator when the block of a cue of
\* segment "failing" raises: the segments after it were never reached.
Consumed(it, transcript, failing) ==
    IF failing = 0 THEN it
    ELSE [cues |-> [s \in 1..failing |->
                      IF s < failing THEN it.cues[s] ELSE BeforeFailing(it.cues[s])],
          segments |-> [s \in DOMAIN transcript |->
                          IF s <= failing THEN it.segments[s] ELSE transcript[s]],
          raised |-> TRUE]

\* utils.py:190-208.  out is the text written to the file, block by block.
write_vtt(transcript, maxLineWidth, highlight_words) ==
    LET Blocks(flat) == <<WebVtt \o NL \o NL>> \o [j \in DOMAIN flat |-> VttBlock(flat[j])]
        Written(it) == [out |-> Blocks(Flatten(it.cues)), cues |-> it.cues,
                        segments |-> it.segments, raised |-> it.raised]
        Checked(it) == Written(Consumed(it, transcript, FirstFailing(it.cues)))
    IN Checked(SubtitleIterator(transcript, 1, maxLineWidth, highlight_words, <<>>))

\* utils.py:210-236
write_srt(transcript, maxLineWidth, highlight_words) ==
    LET Blocks(flat) == [j \in DOMAIN flat |-> SrtBlock(j, flat[j])]
        Written(it) == [out |-> Blocks(Flatten(it.cues)), cues |-> it.cues,
                        segments |-> it.segments, raised |-> it.raised]
        Checked(it) == Written(Consumed(it, transcript, FirstFailing(it.cues)))
    IN Checked(SubtitleIterator(transcript, 1, maxLineWidth, highlight_words, <<>>))

SpeakerTag == <<"S", "P", "E", "A", "K", "E", "R", "_">>

IsDigit(c) == \E d \in DOMAIN DigitChars : DigitChars[d] = c

RECURSIVE DigitRun(_)
DigitRun(s) == IF s # <<>> /\ IsDigit(Head(s)) THEN <<Head(s)>> \o DigitRun(Tail(s)) ELSE <<>>

\* utils.py:170-173  re.search('SPEAKER_(\d+)', label): group 1 of the first
\* match, "" without a match
RECURSIVE SpeakerDigits(_)
SpeakerDigits(label) ==
    IF Len(label) <= Len(SpeakerTag) THEN <<>>
    ELSE IF SubSeq(label, 1, Len(SpeakerTag)) = SpeakerTag
            /\ IsDigit(label[Len(SpeakerTag) + 1])
         THEN DigitRun(SubSeq(label, Len(SpeakerTag) + 1, Len(label)))
         ELSE SpeakerDigits(Tail(label))

\* utils.py:168-170: re.search on None raises TypeError; utils.py:177: the
\* assertion of format_timestamp (utils.py:38) fails on a negative start
HtmlSegmentRaises(segment) == segment.longest_speaker = NoneVal \/ segment.start < 0

\* utils.py:166-183: the block printed for one segment
HtmlBlock(segment) ==
    [timestamp |-> format_timestamp(segment.start, FALSE, <<".">>),
     speakerid |-> SpeakerDigits(segment.longest_speaker),
     text |-> Strip(segment.text)]

\* utils.py:58-188.  The exception of a segment is re-raised (line 186).
RECURSIVE write_html_loop(_, _, _)
write_html_loop(transcript, i, blocks) ==
    IF i > Len(transcript) THEN [out |-> blocks, raised |-> FALSE]
    ELSE IF HtmlSegmentRaises(transcript[i]) THEN [out |-> blocks, raised |-> TRUE]
    ELSE write_html_loop(transcript, i + 1, Append(blocks, HtmlBlock(transcript[i])))

write_html(transcript, maxLineWidth, highlight_words) == write_html_loop(transcript, 1, <<>>)

\* ------------------------------------------------------------------ slugify
UpperChars == <<"A", "B", "C", "D", "E", "F", "G", "H", "I", "J", "K", "L", "M",
                "N", "O", "P", "Q", "R", "S", "T", "U", "V", "W", "X", "Y", "Z">>
LowerChars == <<"a", "b", "c", "d", "e", "f", "g", "h", "i", "j", "k", "l", "m",
                "n", "o", "p", "q", "r", "s", "t", "u", "v", "w", "x", "y", "z">>

\* str.lower() on one character
Lower(c) ==
    IF \E k \in DOMAIN UpperChars : UpperChars[k] = c
    THEN LowerChars[CHOOSE k \in DOMAIN UpperChars : UpperChars[k] = c] ELSE c

\* \w of the regular expressions, on ASCII
IsWordChar(c) ==
    \/ \E k \in DOMAIN LowerChars : LowerChars[k] = c
    \/ \E k \in DOMAIN UpperChars : UpperChars[k] = c
    \/ IsDigit(c)
    \/ c = "_"

\* utils.py:379  re.sub(r'[^\w\s-]', '', value.lower())
RECURSIVE DropDisallowed(_)
DropDisallowed(value) ==
    IF value = <<>> THEN <<>>
    ELSE LET c == Lower(Head(value))
         IN (IF IsWordChar(c) \/ c \in Whitespace \/ c = "-" THEN <<c>> ELSE <<>>)
              \o DropDisallowed(Tail(value))

IsDashOrSpace(c) == c = "-" \/ c \in Whitespace

\* utils.py:380  re.sub(r'[-\s]+', '-', value)
RECURSIVE CollapseDashes(_)
CollapseDashes(value) ==
    IF value = <<>> THEN <<>>
    ELSE IF IsDashOrSpace(Head(value))
         THEN IF Len(value) > 1 /\ IsDashOrSpace(value[2])
              THEN CollapseDashes(Tail(value))
              ELSE <<"-">> \o CollapseDashes(Tail(value))
         ELSE <<Head(value)>> \o CollapseDashes(Tail(value))

\* utils.py:380  .strip('-_')
RECURSIVE StripDashes(_)
StripDashes(value) ==
    IF value # <<>> /\ Head(value) \in {"-", "_"} THEN StripDashes(Tail(value))
    ELSE IF value # <<>> /\ value[Len(value)] \in {"-", "_"}
         THEN StripDashes(SubSeq(value, 1, Len(value) - 1))
         ELSE value

\* utils.py:366-380 with allow_unicode=True, on ASCII text (NFKC leaves it alone)
slugify(value) == StripDashes(CollapseDashes(DropDisallowed(value)))

\* ------------------------------------------------------------ audio sources
\* app.py:44
MAX_FILE_PREFIX_LENGTH == 17

\* AudioSource.get_short_name(max_length): the display name capped in length
get_short_name(source, max_length) ==
    SubSeq(source.name, 1, IF Len(source.name) < max_length THEN Len(source.name)
                           ELSE max_length)

\* AudioSource.get_full_name()
get_full_name(source) == source.name

\* AudioSource.get_audio_duration()
get_audio_duration(source) == source.duration

\* ------------------------------------------------------- diarization merger
Max(a, b) == IF a >= b THEN a ELSE b
Min(a, b) == IF a <= b THEN a ELSE b

\* the duration for which interval iv overlaps [s, e]
Overlap(iv, s, e) == Max(0, Min(iv.end, e) - Max(iv.start, s))

RECURSIVE SumOverlap(_, _, _, _)
SumOverlap(intervals, spk, s, e) ==
    IF intervals = <<>> THEN 0
    ELSE (IF Head(intervals).speaker = spk THEN Overlap(Head(intervals), s, e) ELSE 0)
           + SumOverlap(Tail(intervals), spk, s, e)

\* the start of the earliest interval of speaker spk
FirstStart(intervals, spk) ==
    LET starts == {intervals[k].start : k \in {j \in DOMAIN intervals : intervals[j].speaker = spk}}
    IN CHOOSE m \in starts : \A x \in starts : m <= x

\* The speaker whose intervals overlap [s, e] longest in total, ties to the
\* earliest interval start; NoneVal when no interval overlaps.
LongestSpeaker(intervals, s, e) ==
    LET spks == {intervals[k].speaker : k \in DOMAIN intervals}
        cand == {spk \in spks : SumOverlap(intervals, spk, s, e) > 0}
        best == {spk \in cand : \A o \in cand :
                    SumOverlap(intervals, spk, s, e) >= SumOverlap(intervals, o, s, e)}
    IN IF cand = {} THEN NoneVal
       ELSE CHOOSE spk \in best : \A o \in best :
                FirstStart(intervals, spk) <= FirstStart(intervals, o)

\* a word with the speaker of its own span
LabelWord(intervals, word) ==
    [start |-> word.start, end |-> word.end, word |-> word.word,
     speaker |-> LongestSpeaker(intervals, word.start, word.end)]

\* DiarizationContainer.mark_speakers: every segment gets its longest
\* speaker, every word the speaker of its own span
mark_speakers(intervals, input) ==
    [input EXCEPT !.segments =
        [k \in DOMAIN input.segments |->
            [input.segments[k] EXCEPT
                !.longest_speaker =
                    LongestSpeaker(intervals, input.segments[k].start, input.segments[k].end),
                !.words = [j \in DOMAIN input.segments[k].words |->
                             LabelWord(intervals, input.segments[k].words[j])]]]]

\* ------------------------------------------------------------------ progress
\* SubTaskProgressListener.on_progress(current, total) forwarded to
\* ForwardingProgressListener.on_progress (app.py:438-440): the fraction
\* (sub_task_start + sub_task_total * current / total) / base_task_total
\* handed to the progress sink, as numerator and denominator.
ScaledProgress(listener, current, total) ==
    [num |-> listener.sub_task_start * total + listener.sub_task_total * current,
     den |-> listener.base_task_total * total]

\* app.py:273-276
SubTaskProgressListener(base_task_total, sub_task_start, sub_task_total) ==
    [base_task_total |-> base_task_total, sub_task_start |-> sub_task_start,
     sub_task_total |-> sub_task_total]

\* app.py:256
RECURSIVE SumDurations(_)
SumDurations(srcs) ==
    IF srcs = <<>> THEN 0 ELSE get_audio_duration(Head(srcs)) + SumDurations(Tail(srcs))

\* A variant of AdvanceProgress that never advances.
AdvanceProgressNone(current_progress, source_audio_duration) == current_progress

\* app.py:287
AdvanceProgress(current_progress, source_audio_duration) ==
    current_progress + source_audio_duration

\* ------------------------------------------------------- transcribe_webui
\* A variant of SourcePrefix that numbers no source.
SourcePrefixNone(nsources, source_index) == <<>>

\* app.py:267-270
SourcePrefix(nsources, source_index) ==
    IF nsources > 1 THEN ZeroPad(Str(source_index), 2) \o <<"_">> ELSE <<>>

\* app.py:284
FilePrefix(source_prefix, source) ==
    slugify(source_prefix \o get_short_name(source, MAX_FILE_PREFIX_LENGTH))

\* app.py:309
ZipFilePrefix(source_prefix, source) ==
    slugify(source_prefix \o get_short_name(source, 200))

\* A variant of SourceText that appends no separator.
SourceTextNoSeparator(nsources, full_name, source_text) ==
    IF nsources > 1 THEN full_name \o <<":">> \o NL \o source_text ELSE source_text

\* app.py:291-300: a source's text (or VTT) as it is added to the combined one
SourceText(nsources, full_name, source_text) ==
    IF nsources > 1
    THEN full_name \o <<":">> \o NL
           \o (IF Len(source_text) > 0 THEN source_text \o NL \o NL ELSE source_text)
    ELSE source_text

\* A variant of AddToResult that puts the newer text first.
AddToResultInFront(combined, source_text) == source_text \o combined

\* app.py:304-305  text += source_text; vtt += source_vtt
AddToResult(combined, source_text) == combined \o source_text

\* app.py:314  os.path.basename(f).split("-")[-1]
RECURSIVE AfterLastDash(_)
AfterLastDash(name) ==
    IF \E i \in DOMAIN name : name[i] = "-"
    THEN AfterLastDash(SubSeq(name, (CHOOSE i \in DOMAIN name : name[i] = "-") + 1, Len(name)))
    ELSE name

\* A variant of ZipFileName that leaves out the source's prefix.
ZipFileNameNoPrefix(zipFilePrefix, source_download_file) ==
    AfterLastDash(source_download_file)

\* app.py:315
ZipFileName(zipFilePrefix, source_download_file) ==
    zipFilePrefix \o <<"-">> \o AfterLastDash(source_download_file)

\* dict assignment d[key] = value
DictPut(d, key, value) ==
    [x \in DOMAIN d \cup {key} |-> IF x = key THEN value ELSE d[x]]

\* app.py:312-316
RECURSIVE ZipLookupFor(_, _, _)
ZipLookupFor(lookup, zipFilePrefix, source_download) ==
    IF source_download = <<>> THEN lookup
    ELSE ZipLookupFor(DictPut(lookup, Head(source_download),
                              ZipFileName(zipFilePrefix, Head(source_download))),
                      zipFilePrefix, Tail(source_download))

\* app.py:320: the archive's name; the time stamp is left symbolic
ArchiveName == <<"All_Output-", "<timestamp>", ".zip">>

\* app.py:322-326
ZipEntries(download, lookup) ==
    [k \in DOMAIN download |->
        [arcname |-> IF download[k] \in DOMAIN lookup THEN lookup[download[k]]
                     ELSE download[k],
         file |-> download[k]]]

\* A variant of ExceededReturn whose message leaves out the file's duration.
ExceededReturnNoDuration(e) ==
    [files |-> <<>>,
     text |-> <<"[ERROR]: Maximum remote video length is ">> \o Str(e.maxDuration) \o <<"s">>,
     vtt |-> <<"[ERROR]">>]

\* app.py:345
ExceededReturn(e) ==
    [files |-> <<>>,
     text |-> <<"[ERROR]: Maximum remote video length is ">> \o Str(e.maxDuration)
                \o <<"s, file was ">> \o Str(e.videoDuration) \o <<"s">>,
     vtt |-> <<"[ERROR]">>]

\* A variant of CleanupEnabled that ignores the option.
CleanupAlways(deleteUploadedFiles) == TRUE

\* app.py:334
CleanupEnabled(deleteUploadedFiles) == deleteUploadedFiles

\* ------------------------------------------------------------ input domains
LongWord == <<" ">> \o [i \in 1..38 |-> "x"]
LongText == [i \in 1..25 |-> "x"] \o <<" ">> \o [i \in 1..25 |-> "y"]

\* the k-th word of a segment, with the leading space the recognizer gives it
WordText(k) == IF k % 2 = 0 THEN LongWord ELSE <<" ", "a">>

Spans == {sp \in (0..MaxTime) \X (0..MaxTime) : sp[1] <= sp[2]}

WordListsOfLen(n) ==
    {[k \in 1..n |-> [start |-> f[k][1], end |-> f[k][2], word |-> WordText(k)]] :
        f \in [1..n -> Spans]}

WordLists == UNION {WordListsOfLen(n) : n \in 0..MaxWords}

Speaker00 == SpeakerTag \o <<"0", "0">>
Speakers == {NoneVal, Speaker00}
Texts == {<<" ", "a", " ", "b">>, LongText}

Segment(sp, text, words, speaker) ==
    [start |-> sp[1], end |-> sp[2], text |-> text, words |-> words,
     longest_speaker |-> speaker]

\* Segments as the recognizer (and the merger) hand them over: the text of a
\* segment with word timing is the concatenation of its words.
Segments ==
    {Segment(sp, t, <<>>, spk) : sp \in Spans, t \in Texts, spk \in Speakers}
    \cup {Segment(sp, Flatten([k \in DOMAIN ws |-> ws[k].word]), ws, spk) :
            sp \in Spans, ws \in WordLists \ {<<>>}, spk \in Speakers}

WholeSpan == <<0, MaxTime>>
WholeWord == [start |-> WholeSpan[1], end |-> WholeSpan[2], word |-> WordText(1)]
SmallSegments ==
    {Segment(WholeSpan, <<" ", "a", " ", "b">>, <<>>, spk) : spk \in Speakers}
    \cup {Segment(WholeSpan, WholeWord.word, <<WholeWord>>, spk) : spk \in Speakers}

Languages == {"en", "ja"}

Result(language, segments) ==
    [text |-> Flatten([k \in DOMAIN segments |-> segments[k].text]),
     language |-> language, segments |-> segments]

\* segments of a transcript that starts before 0: no timestamp can be
\* formatted for them (utils.py:38)
MalformedSegments ==
    {Segment(<<0 - 1, MaxTime>>, <<" ", "a", " ", "b">>, <<>>, spk) : spk \in Speakers}

RenderResults ==
    {Result(l, sgs) : l \in Languages,
        sgs \in {<<>>} \cup {<<sg>> : sg \in Segments}
                \cup {<<s1, s2>> : s1 \in SmallSegments, s2 \in SmallSegments}
                \cup {<<s1, s2>> : s1 \in SmallSegments, s2 \in MalformedSegments}}

\* the dispatcher's inputs
MaxSources == 2
MaxReports == 1
EngineTotal == 2

SourcePath(k) == <<"p">> \o Str(k)
LongName == [i \in 1..(MAX_FILE_PREFIX_LENGTH + 1) |-> "x"]
SourceName(k, kind) ==
    IF kind = "same" THEN <<"a">>
    ELSE IF kind = "mixed" THEN (IF k % 2 = 0 THEN <<"a">> ELSE <<"M", " ", "b", "!">>)
    ELSE (IF k % 2 = 0 THEN LongName ELSE <<"!">>)
SourceDuration(k) == IF k % 2 = 1 THEN 100 ELSE 50

\* The source lists the audio source provider may return: the k-th source has
\* its own path; the display names are all the same, or alternate between
\* two names, one of which may slugify to nothing or exceed the short length.
SourceLists ==
    {[k \in 1..n |-> [path |-> SourcePath(k), name |-> SourceName(k, kind),
                      duration |-> SourceDuration(k)]] :
        n \in 1..MaxSources, kind \in {"same", "mixed", "odd"}}

\* ExceededMaximumDuration(videoDuration, maxDuration) as the provider raises it
ExceedCases == {[maxDuration |-> 60, videoDuration |-> 75],
                [maxDuration |-> 3, videoDuration |-> 4]}

\* What the recognition engine returns: no segment, or one segment with word
\* timing and without a speaker label.
EngineResults ==
    {Result("en", sgs) :
        sgs \in {<<>>} \cup {<<sg>> : sg \in {x \in SmallSegments :
                                                 x.words # <<>> /\ x.longest_speaker = NoneVal}}}

\* What load_transcript returns: a result written earlier, labelled or not.
LoadedResults ==
    {Result("en", sgs) :
        sgs \in {<<>>} \cup {<<sg>> : sg \in {x \in SmallSegments : x.words # <<>>}}}

\* What the diarization engine returns
IntervalLists == {<<>>, <<[start |-> 0, end |-> MaxTime, speaker |-> Speaker00]>>}

Requests ==
    [entry : {"full", "extra"}, diarization : BOOLEAN, whisper_file : BOOLEAN,
     highlight_words : BOOLEAN]

\* ------------------------------------------------------------------- state
VARIABLES
    pc,             \* position of the request inside the dispatcher
    req,            \* the request: entry point and its arguments
    deleteUploadedFiles,    \* WhisperTranscriber.deleteUploadedFiles
    diarization,    \* WhisperTranscriber.diarization is set (a container exists)
    diarization_kwargs,     \* WhisperTranscriber.diarization_kwargs is not None
    sources,        \* the resolved audio sources
    k,              \* index of the source the loop is at
    source_index,
    total_duration,
    current_progress,
    listener,       \* the SubTaskProgressListener of the current source
    reports,        \* progress callbacks the engines made during the dispatch
    last_report,    \* the last "current" the engine reported for this source
    sink,           \* the fractions the progress sink received, in order
    download,
    text,
    vtt,
    zip_file_lookup,
    archive,        \* the entries of the archive written, <<>> if none
    removals,       \* removal attempts on source files: [path, ok], in order
    merged,         \* how often the merger ran, per source
    calls,          \* recognition and override calls started, as source indices
    pending,        \* what the try block ended with, kept across the finally block
    outcome,        \* "running", "returned" or "raised"
    ret,            \* what transcribe_webui returned
    wpc,            \* position inside write_result
    result,         \* the result dict of the current source (mutable)
    orig,           \* the segments as they were when write_result was called
    source_name,    \* write_result's file-name prefix
    highlight_words,
    vtt_cues,       \* the cues the VTT run of the synthesizer yielded, per segment
    srt_cues,       \* the cues the SRT run of the synthesizer yielded, per segment
    subs,           \* the texts __get_subs returned, by format
    failed_in,      \* the format whose renderer raised, "" if none
    wret,           \* write_result's return value
    fs,             \* the files written so far, in order: [name, content]
    op,             \* the function of utils.py called on its own, "" if none
    args,           \* the arguments of that call
    value,          \* what the call returned or raised: [raised, out], <<>> before
    threads         \* the requests running on one WhisperTranscriber, by worker thread

dvars == <<pc, req, deleteUploadedFiles, diarization, diarization_kwargs, sources, k,
           source_index, total_duration, current_progress, listener, reports,
           last_report, sink, download, text, vtt, zip_file_lookup, archive, removals,
           merged, calls, pending, outcome, ret>>

wvars == <<wpc, result, orig, source_name, highlight_words, vtt_cues, srt_cues,
           subs, failed_in, wret, fs>>

uvars == <<op, args, value>>

tvars == <<threads>>

vars == <<dvars, wvars, uvars, tvars>>

\* ------------------------------------------------------------ write_result
\* app.py:530-537; language.lower() on the lower-case names of Languages
GetMaxLineWidth(language) ==
    IF language # "" /\ language \in {"japanese", "ja", "chinese", "zh"} THEN 40 ELSE 80

\* A variant of GetSubs that renders VTT for a format it does not know.
GetSubsDefaultVtt(segments, format, maxLineWidth, highlight) ==
    IF format = "srt" THEN write_srt(segments, maxLineWidth, highlight)
    ELSE IF format = "html" THEN write_html(segments, maxLineWidth, highlight)
    ELSE write_vtt(segments, maxLineWidth, highlight)

\* app.py:539-552
GetSubs(segments, format, maxLineWidth, highlight) ==
    IF format = "vtt" THEN write_vtt(segments, maxLineWidth, highlight)
    ELSE IF format = "srt" THEN write_srt(segments, maxLineWidth, highlight)
    ELSE IF format = "html" THEN write_html(segments, maxLineWidth, highlight)
    ELSE [out |-> <<>>, raised |-> TRUE]

\* app.py:505  json.dumps(result, indent=4, ensure_ascii=False)
JsonDumps(r) == [indent |-> 4, value |-> r]

\* A variant of FileName that leaves the prefix out.
FileNamePostfixOnly(prefix, postfix) == postfix

FileName(prefix, postfix) == prefix \o postfix
JsonPostfix == <<"-", "result.json">>
SrtPostfix == <<"-", "subs.srt">>
VttPostfix == <<"-", "subs.vtt">>
TxtPostfix == <<"-", "transcript.txt">>
HtmlPostfix == <<"-", "transcript.html">>

\* app.py:554-559
CreateFile(files, content, fileName) == Append(files, [name |-> fileName, content |-> content])

\* A variant of WriteJson that writes no file.
WriteJsonLater ==
    /\ wpc = "json"
    /\ wpc' = "vtt"
    /\ UNCHANGED <<result, orig, source_name, highlight_words, vtt_cues, srt_cues,
                   subs, failed_in, wret, fs>>
    /\ UNCHANGED dvars
    /\ UNCHANGED uvars
    /\ UNCHANGED tvars

\* app.py:497-507
WriteJson ==
    /\ wpc = "json"
    /\ fs' = CreateFile(fs, JsonDumps(result), FileName(source_name, JsonPostfix))
    /\ wpc' = "vtt"
    /\ UNCHANGED <<result, orig, source_name, highlight_words, vtt_cues, srt_cues,
                   subs, failed_in, wret>>
    /\ UNCHANGED dvars
    /\ UNCHANGED uvars
    /\ UNCHANGED tvars

\* app.py:510
GetSubsVtt ==
    /\ wpc = "vtt"
    /\ \E r \in {GetSubs(result.segments, "vtt", GetMaxLineWidth(result.language),
                         highlight_words)} :
          /\ result' = [result EXCEPT !.segments = r.segments]
          /\ vtt_cues' = r.cues
          /\ subs' = [subs EXCEPT !.vtt = Flatten(r.out)]
          /\ wpc' = IF r.raised THEN "raised" ELSE "srt"
          /\ failed_in' = IF r.raised THEN "vtt" ELSE failed_in
    /\ UNCHANGED <<orig, source_name, highlight_words, srt_cues, wret, fs>>
    /\ UNCHANGED dvars
    /\ UNCHANGED uvars
    /\ UNCHANGED tvars

\* app.py:511
GetSubsSrt ==
    /\ wpc = "srt"
    /\ \E r \in {GetSubs(result.segments, "srt", GetMaxLineWidth(result.language),
                         highlight_words)} :
          /\ result' = [result EXCEPT !.segments = r.segments]
          /\ srt_cues' = r.cues
          /\ subs' = [subs EXCEPT !.srt = Flatten(r.out)]
          /\ wpc' = IF r.raised THEN "raised" ELSE "html"
          /\ failed_in' = IF r.raised THEN "srt" ELSE failed_in
    /\ UNCHANGED <<orig, source_name, highlight_words, vtt_cues, wret, fs>>
    /\ UNCHANGED dvars
    /\ UNCHANGED uvars
    /\ UNCHANGED tvars

\* app.py:512
GetSubsHtml ==
    /\ wpc = "html"
    /\ \E r \in {GetSubs(result.segments, "html", GetMaxLineWidth(result.language),
                         highlight_words)} :
          /\ subs' = [subs EXCEPT !.html = r.out]
          /\ wpc' = IF r.raised THEN "raised" ELSE "files"
          /\ failed_in' = IF r.raised THEN "html" ELSE failed_in
    /\ UNCHANGED <<result, orig, source_name, highlight_words, vtt_cues, srt_cues,
                   wret, fs>>
    /\ UNCHANGED dvars
    /\ UNCHANGED uvars
    /\ UNCHANGED tvars

\* app.py:514-519: the files created after the JSON file, in order
OutputFiles(prefix) ==
    <<FileName(prefix, SrtPostfix), FileName(prefix, VttPostfix),
      FileName(prefix, TxtPostfix), FileName(prefix, HtmlPostfix),
      FileName(prefix, JsonPostfix)>>

\* app.py:514-521
CreateFiles ==
    /\ wpc = "files"
    /\ fs' = CreateFile(CreateFile(CreateFile(CreateFile(fs,
                subs.srt, FileName(source_name, SrtPostfix)),
                subs.vtt, FileName(source_name, VttPostfix)),
                result.text, FileName(source_name, TxtPostfix)),
                subs.html, FileName(source_name, HtmlPostfix))
    /\ wret' = [files |-> OutputFiles(source_name), text |-> result.text, vtt |-> subs.vtt]
    /\ wpc' = "returned"
    /\ UNCHANGED <<result, orig, source_name, highlight_words, vtt_cues, srt_cues,
                   subs, failed_in>>
    /\ UNCHANGED dvars
    /\ UNCHANGED uvars
    /\ UNCHANGED tvars

\* ------------------------------------------------------------- dispatcher
NoListener == SubTaskProgressListener(0, 0, 0)
NoResult == Result("", <<>>)

\* app.py:176-180 (and 127-130): set_diarization / unset_diarization
EnterFull ==
    /\ pc = "entry"
    /\ req.entry = "full"
    /\ diarization' = (diarization \/ req.diarization)
    /\ diarization_kwargs' = req.diarization
    /\ pc' = "get_source"
    /\ UNCHANGED <<req, deleteUploadedFiles, sources, k, source_index, total_duration,
                   current_progress, listener, reports, last_report, sink, download,
                   text, vtt, zip_file_lookup, archive, removals, merged, calls,
                   pending, outcome, ret>>
    /\ UNCHANGED wvars
    /\ UNCHANGED uvars
    /\ UNCHANGED tvars

\* app.py:190-220
EnterExtra ==
    /\ pc = "entry"
    /\ req.entry = "extra"
    /\ IF ~req.whisper_file
       THEN /\ outcome' = "raised"
            /\ pc' = "done"
            /\ UNCHANGED <<diarization, diarization_kwargs>>
       ELSE /\ diarization' = (diarization \/ req.diarization)
            /\ diarization_kwargs' = req.diarization
            /\ pc' = "get_source"
            /\ UNCHANGED outcome
    /\ UNCHANGED <<req, deleteUploadedFiles, sources, k, source_index, total_duration,
                   current_progress, listener, reports, last_report, sink, download,
                   text, vtt, zip_file_lookup, archive, removals, merged, calls,
                   pending, ret>>
    /\ UNCHANGED wvars
    /\ UNCHANGED uvars
    /\ UNCHANGED tvars

\* app.py:220: perform_extra passes override_max_sources=1
OverrideMaxSources(r) == IF r.entry = "extra" THEN 1 ELSE MaxSources

\* app.py:227-260: the sources are resolved and the loop is set up
GetSource ==
    /\ pc = "get_source"
    /\ \E srcs \in SourceLists :
        /\ Len(srcs) <= OverrideMaxSources(req)
        /\ sources' = srcs
        /\ total_duration' = SumDurations(srcs)
    /\ current_progress' = 0
    /\ source_index' = 0
    /\ k' = 1
    /\ download' = <<>>
    /\ text' = <<>>
    /\ vtt' = <<>>
    /\ zip_file_lookup' = <<>>
    /\ pc' = "loop"
    /\ UNCHANGED <<req, deleteUploadedFiles, diarization, diarization_kwargs, listener,
                   reports, last_report, sink, archive, removals, merged, calls,
                   pending, outcome, ret>>
    /\ UNCHANGED wvars
    /\ UNCHANGED uvars
    /\ UNCHANGED tvars

\* app.py:229-230: more sources than the override allows
GetSourceTooMany ==
    /\ pc = "get_source"
    /\ \E srcs \in SourceLists :
        /\ Len(srcs) > OverrideMaxSources(req)
        /\ sources' = srcs
    /\ outcome' = "raised"
    /\ pc' = "done"
    /\ UNCHANGED <<req, deleteUploadedFiles, diarization, diarization_kwargs, k,
                   source_index, total_duration, current_progress, listener, reports,
                   last_report, sink, download, text, vtt, zip_file_lookup, archive,
                   removals, merged, calls, pending, ret>>
    /\ UNCHANGED wvars
    /\ UNCHANGED uvars
    /\ UNCHANGED tvars

\* app.py:227, 344-345: the provider raises ExceededMaximumDuration
GetSourceExceeded ==
    /\ pc = "get_source"
    /\ \E e \in ExceedCases : ret' = ExceededReturn(e)
    /\ outcome' = "error"
    /\ pc' = "done"
    /\ UNCHANGED <<req, deleteUploadedFiles, diarization, diarization_kwargs, sources, k,
                   source_index, total_duration, current_progress, listener, reports,
                   last_report, sink, download, text, vtt, zip_file_lookup, archive,
                   removals, merged, calls, pending>>
    /\ UNCHANGED wvars
    /\ UNCHANGED uvars
    /\ UNCHANGED tvars

\* app.py:263-282: the loop takes the next source and starts its call
StartSource ==
    /\ pc = "loop"
    /\ k <= Len(sources)
    /\ source_index' = IF Len(sources) > 1 THEN source_index + 1 ELSE source_index
    /\ listener' = SubTaskProgressListener(total_duration, current_progress,
                                           get_audio_duration(sources[k]))
    /\ last_report' = 0
    /\ calls' = Append(calls, k)
    /\ pc' = IF req.entry = "extra" THEN "override" ELSE "recognize"
    /\ UNCHANGED <<req, deleteUploadedFiles, diarization, diarization_kwargs, sources, k,
                   total_duration, current_progress, reports, sink, download, text, vtt,
                   zip_file_lookup, archive, removals, merged, pending, outcome, ret>>
    /\ UNCHANGED wvars
    /\ UNCHANGED uvars
    /\ UNCHANGED tvars

\* The engine's progress callback, on the calling thread (app.py:280, 408):
\* "current" never decreases; at most MaxReports callbacks in a dispatch.
EngineProgress ==
    /\ pc = "recognize"
    /\ reports < MaxReports
    /\ \E c \in last_report..EngineTotal :
        /\ sink' = Append(sink, ScaledProgress(listener, c, EngineTotal))
        /\ last_report' = c
    /\ reports' = reports + 1
    /\ UNCHANGED <<pc, req, deleteUploadedFiles, diarization, diarization_kwargs, sources,
                   k, source_index, total_duration, current_progress, listener,
                   download, text, vtt, zip_file_lookup, archive, removals, merged,
                   calls, pending, outcome, ret>>
    /\ UNCHANGED wvars
    /\ UNCHANGED uvars
    /\ UNCHANGED tvars

\* app.py:380-408: the engine returns its result
EngineReturn ==
    /\ pc = "recognize"
    /\ \E r \in EngineResults : result' = r
    /\ pc' = "diarize"
    /\ UNCHANGED <<req, deleteUploadedFiles, diarization, diarization_kwargs, sources, k,
                   source_index, total_duration, current_progress, listener, reports,
                   last_report, sink, download, text, vtt, zip_file_lookup, archive,
                   removals, merged, calls, pending, outcome, ret>>
    /\ UNCHANGED <<wpc, orig, source_name, highlight_words, vtt_cues, srt_cues, subs,
                   failed_in, wret, fs>>
    /\ UNCHANGED uvars
    /\ UNCHANGED tvars

\* The engine raises: nothing in transcribe_webui catches it (app.py:232, 332)
EngineRaise ==
    /\ pc = "recognize"
    /\ pending' = "raised"
    /\ pc' = "cleanup"
    /\ UNCHANGED <<req, deleteUploadedFiles, diarization, diarization_kwargs, sources, k,
                   source_index, total_duration, current_progress, listener, reports,
                   last_report, sink, download, text, vtt, zip_file_lookup, archive,
                   removals, merged, calls, outcome, ret>>
    /\ UNCHANGED wvars
    /\ UNCHANGED uvars
    /\ UNCHANGED tvars

\* app.py:204-209: custom_transcribe_file loads the saved result
OverrideLoad ==
    /\ pc = "override"
    /\ \E r \in LoadedResults : result' = r
    /\ pc' = "diarize"
    /\ UNCHANGED <<req, deleteUploadedFiles, diarization, diarization_kwargs, sources, k,
                   source_index, total_duration, current_progress, listener, reports,
                   last_report, sink, download, text, vtt, zip_file_lookup, archive,
                   removals, merged, calls, pending, outcome, ret>>
    /\ UNCHANGED <<wpc, orig, source_name, highlight_words, vtt_cues, srt_cues, subs,
                   failed_in, wret, fs>>
    /\ UNCHANGED uvars
    /\ UNCHANGED tvars

\* app.py:415
DiarizationEnabled(container, kwargs) == container /\ kwargs

\* app.py:414-427 (called at 212 and 411)
HandleDiarization ==
    /\ pc = "diarize"
    /\ IF DiarizationEnabled(diarization, diarization_kwargs)
       THEN /\ \E ivs \in IntervalLists : result' = mark_speakers(ivs, result)
            /\ merged' = Append(merged, k)
       ELSE UNCHANGED <<result, merged>>
    /\ pc' = "post"
    /\ UNCHANGED <<req, deleteUploadedFiles, diarization, diarization_kwargs, sources, k,
                   source_index, total_duration, current_progress, listener, reports,
                   last_report, sink, download, text, vtt, zip_file_lookup, archive,
                   removals, calls, pending, outcome, ret>>
    /\ UNCHANGED <<wpc, orig, source_name, highlight_words, vtt_cues, srt_cues, subs,
                   failed_in, wret, fs>>
    /\ UNCHANGED uvars
    /\ UNCHANGED tvars

\* app.py:417: the diarization engine raises
DiarizationRaise ==
    /\ pc = "diarize"
    /\ DiarizationEnabled(diarization, diarization_kwargs)
    /\ pending' = "raised"
    /\ pc' = "cleanup"
    /\ UNCHANGED <<req, deleteUploadedFiles, diarization, diarization_kwargs, sources, k,
                   source_index, total_duration, current_progress, listener, reports,
                   last_report, sink, download, text, vtt, zip_file_lookup, archive,
                   removals, merged, calls, outcome, ret>>
    /\ UNCHANGED wvars
    /\ UNCHANGED uvars
    /\ UNCHANGED tvars

NoSubs == [vtt |-> <<>>, srt |-> <<>>, html |-> <<>>]
NoRet == [files |-> <<>>, text |-> <<>>, vtt |-> <<>>]

\* app.py:284-289: the file prefix, the progress, and the call of write_result
PostTranscribe ==
    /\ pc = "post"
    /\ current_progress' = AdvanceProgress(current_progress, get_audio_duration(sources[k]))
    /\ source_name' = FilePrefix(SourcePrefix(Len(sources), source_index), sources[k])
    /\ orig' = result.segments
    /\ vtt_cues' = <<>>
    /\ srt_cues' = <<>>
    /\ subs' = NoSubs
    /\ failed_in' = ""
    /\ wret' = NoRet
    /\ wpc' = "json"
    /\ pc' = "write"
    /\ UNCHANGED <<req, deleteUploadedFiles, diarization, diarization_kwargs, sources, k,
                   source_index, total_duration, listener, reports, last_report, sink,
                   download, text, vtt, zip_file_lookup, archive, removals, merged,
                   calls, pending, outcome, ret>>
    /\ UNCHANGED <<result, highlight_words, fs>>
    /\ UNCHANGED uvars
    /\ UNCHANGED tvars

\* app.py:289-316: write_result returned; its output joins the combined one
AfterWrite ==
    /\ pc = "write"
    /\ wpc = "returned"
    /\ download' = download \o wret.files
    /\ text' = AddToResult(text, SourceText(Len(sources), get_full_name(sources[k]),
                                            wret.text))
    /\ vtt' = AddToResult(vtt, SourceText(Len(sources), get_full_name(sources[k]),
                                          wret.vtt))
    /\ zip_file_lookup' =
          IF Len(sources) > 1
          THEN ZipLookupFor(zip_file_lookup,
                            ZipFilePrefix(SourcePrefix(Len(sources), source_index), sources[k]),
                            wret.files)
          ELSE zip_file_lookup
    /\ k' = k + 1
    /\ wpc' = "idle"
    /\ pc' = "loop"
    /\ UNCHANGED <<req, deleteUploadedFiles, diarization, diarization_kwargs, sources,
                   source_index, total_duration, current_progress, listener, reports,
                   last_report, sink, archive, removals, merged, calls, pending,
                   outcome, ret>>
    /\ UNCHANGED <<result, orig, source_name, highlight_words, vtt_cues, srt_cues, subs,
                   failed_in, wret, fs>>
    /\ UNCHANGED uvars
    /\ UNCHANGED tvars

\* app.py:289: write_result raised; the exception leaves the loop
WriteRaised ==
    /\ pc = "write"
    /\ wpc = "raised"
    /\ pending' = "raised"
    /\ wpc' = "idle"
    /\ pc' = "cleanup"
    /\ UNCHANGED <<req, deleteUploadedFiles, diarization, diarization_kwargs, sources, k,
                   source_index, total_duration, current_progress, listener, reports,
                   last_report, sink, download, text, vtt, zip_file_lookup, archive,
                   removals, merged, calls, outcome, ret>>
    /\ UNCHANGED <<result, orig, source_name, highlight_words, vtt_cues, srt_cues, subs,
                   failed_in, wret, fs>>
    /\ UNCHANGED uvars
    /\ UNCHANGED tvars

\* app.py:318-330: the archive, and the value to return
FinishLoop ==
    /\ pc = "loop"
    /\ k > Len(sources)
    /\ IF Len(sources) > 1
       THEN /\ archive' = ZipEntries(download, zip_file_lookup)
            /\ download' = <<ArchiveName>> \o download
       ELSE UNCHANGED <<archive, download>>
    /\ pending' = "returned"
    /\ pc' = "cleanup"
    /\ UNCHANGED <<req, deleteUploadedFiles, diarization, diarization_kwargs, sources, k,
                   source_index, total_duration, current_progress, listener, reports,
                   last_report, sink, text, vtt, zip_file_lookup, removals, merged,
                   calls, outcome, ret>>
    /\ UNCHANGED wvars
    /\ UNCHANGED uvars
    /\ UNCHANGED tvars

\* app.py:335-342: one turn of the finally block's loop; os.remove may fail
RemoveSource ==
    /\ pc = "cleanup"
    /\ CleanupEnabled(deleteUploadedFiles)
    /\ Len(removals) < Len(sources)
    /\ \E ok \in BOOLEAN :
        removals' = Append(removals, [path |-> sources[Len(removals) + 1].path, ok |-> ok])
    /\ UNCHANGED <<pc, req, deleteUploadedFiles, diarization, diarization_kwargs, sources,
                   k, source_index, total_duration, current_progress, listener, reports,
                   last_report, sink, download, text, vtt, zip_file_lookup, archive,
                   merged, calls, pending, outcome, ret>>
    /\ UNCHANGED wvars
    /\ UNCHANGED uvars
    /\ UNCHANGED tvars

\* A variant of AfterFinally that returns whatever the try block ended with.
AfterFinallyReturns(ended) == "returned"

\* app.py:332-342: the finally block holds no return, so what the try
\* block ended with, a return or an exception, goes on after it
AfterFinally(ended) == ended

\* app.py:330-342: the finally block is over; the call returns or re-raises
Finish ==
    /\ pc = "cleanup"
    /\ ~CleanupEnabled(deleteUploadedFiles) \/ Len(removals) = Len(sources)
    /\ outcome' = AfterFinally(pending)
    /\ ret' = IF pending = "returned"
              THEN [files |-> download, text |-> text, vtt |-> vtt] ELSE ret
    /\ pc' = "done"
    /\ UNCHANGED <<req, deleteUploadedFiles, diarization, diarization_kwargs, sources, k,
                   source_index, total_duration, current_progress, listener, reports,
                   last_report, sink, download, text, vtt, zip_file_lookup, archive,
                   removals, merged, calls, pending>>
    /\ UNCHANGED wvars
    /\ UNCHANGED uvars
    /\ UNCHANGED tvars

\* The state after construction (app.py:63-82) with a request at an entry point
Init ==
    /\ pc = "entry"
    /\ req \in {r \in Requests : r.entry = "full" => r.whisper_file}
    /\ deleteUploadedFiles \in BOOLEAN
    /\ diarization = FALSE
    /\ diarization_kwargs = FALSE
    /\ sources = <<>>
    /\ k = 0
    /\ source_index = 0
    /\ total_duration = 0
    /\ current_progress = 0
    /\ listener = NoListener
    /\ reports = 0
    /\ last_report = 0
    /\ sink = <<>>
    /\ download = <<>>
    /\ text = <<>>
    /\ vtt = <<>>
    /\ zip_file_lookup = <<>>
    /\ archive = <<>>
    /\ removals = <<>>
    /\ merged = <<>>
    /\ calls = <<>>
    /\ pending = "none"
    /\ outcome = "running"
    /\ ret = NoRet
    /\ wpc = "idle"
    /\ result = NoResult
    /\ orig = <<>>
    /\ source_name = <<>>
    /\ highlight_words = req.highlight_words
    /\ vtt_cues = <<>>
    /\ srt_cues = <<>>
    /\ subs = NoSubs
    /\ failed_in = ""
    /\ wret = NoRet
    /\ fs = <<>>
    /\ op = ""
    /\ args = <<>>
    /\ value = <<>>
    /\ threads = <<>>

Next ==
    \/ EnterFull
    \/ EnterExtra
    \/ GetSource
    \/ GetSourceTooMany
    \/ GetSourceExceeded
    \/ StartSource
    \/ EngineProgress
    \/ EngineReturn
    \/ EngineRaise
    \/ OverrideLoad
    \/ HandleDiarization
    \/ DiarizationRaise
    \/ PostTranscribe
    \/ WriteJson
    \/ GetSubsVtt
    \/ GetSubsSrt
    \/ GetSubsHtml
    \/ CreateFiles
    \/ AfterWrite
    \/ WriteRaised
    \/ FinishLoop
    \/ RemoveSource
    \/ Finish

Spec == Init /\ [][Next]_vars

\* ---------------------------------------------- write_result on any result
\* write_result called with any result of RenderResults, outside a dispatch
InitRender ==
    /\ pc = "render"
    /\ req \in {r \in Requests : r.entry = "full" /\ r.whisper_file /\ ~r.diarization}
    /\ deleteUploadedFiles = FALSE
    /\ diarization = FALSE
    /\ diarization_kwargs = FALSE
    /\ sources = <<>>
    /\ k = 0
    /\ source_index = 0
    /\ total_duration = 0
    /\ current_progress = 0
    /\ listener = NoListener
    /\ reports = 0
    /\ last_report = 0
    /\ sink = <<>>
    /\ download = <<>>
    /\ text = <<>>
    /\ vtt = <<>>
    /\ zip_file_lookup = <<>>
    /\ archive = <<>>
    /\ removals = <<>>
    /\ merged = <<>>
    /\ calls = <<>>
    /\ pending = "none"
    /\ outcome = "running"
    /\ ret = NoRet
    /\ wpc = "json"
    /\ result \in RenderResults
    /\ orig = result.segments
    /\ source_name = <<"a">>
    /\ highlight_words = req.highlight_words
    /\ vtt_cues = <<>>
    /\ srt_cues = <<>>
    /\ subs = NoSubs
    /\ failed_in = ""
    /\ wret = NoRet
    /\ fs = <<>>
    /\ op = ""
    /\ args = <<>>
    /\ value = <<>>
    /\ threads = <<>>

NextRender == WriteJson \/ GetSubsVtt \/ GetSubsSrt \/ GetSubsHtml \/ CreateFiles

SpecRender == InitRender /\ [][NextRender]_vars

\* ------------------------------------------- functions called on their own
\* The products seconds * 1000.0 format_timestamp is called with, in
\* quarters of a millisecond, negative ones included
Millis ==
    {h * 3600000 + m * 60000 + sec * 1000 + f :
        h \in {0, 1, 100}, m \in {0, 1, 59}, sec \in {0, 1, 59}, f \in {0, 1, 200, 999}}

Quarters == {4 * ms + r : ms \in Millis, r \in 0..3} \cup {-1, -2, -4}

\* The tokens __join_words is called with: words as the recognizer gives
\* them, and the {word, length} entries of the highlight path
PlainWords == {<<" ", "a">>, <<" ", "b", "b">>, <<"c", "c", "c">>}

PlainLists == UNION {[1..n -> PlainWords] : n \in 0..MaxTokens}

TokenLists ==
    {[i \in DOMAIN ws |-> WordEntry(ws[i])] : ws \in PlainLists}
    \cup UNION {{HighlightEntries(ws, i) : i \in DOMAIN ws} : ws \in PlainLists}

\* maxLineWidth: None (negative here) and budgets from 0
Widths == {-1, 0, 2, 3, 4, 5, 6}

\* Segment texts over '-', '>' and a letter
ArrowTexts == UNION {[1..n -> {"-", ">", "a"}] : n \in 1..MaxTextLen}

Formats == {"vtt", "srt", "html", "txt", "json", ""}

\* What the diarization engine may return: up to two intervals of two
\* speakers, ordered by start
Speaker01 == SpeakerTag \o <<"0", "1">>

Intervals ==
    {[start |-> sp[1], end |-> sp[2], speaker |-> spk] :
        sp \in Spans, spk \in {Speaker00, Speaker01}}

OrderedIntervals ==
    {<<>>} \cup {<<iv>> : iv \in Intervals}
    \cup {pair \in Intervals \X Intervals : pair[1].start <= pair[2].start}

\* Results of one unlabelled segment, with one word or none
MergerResults ==
    {Result("en", <<Segment(sp, <<" ", "a">>, ws, NoneVal)>>) :
        sp \in Spans,
        ws \in {<<>>} \cup {<<[start |-> wsp[1], end |-> wsp[2], word |-> <<" ", "a">>]>> :
                              wsp \in Spans}}

\* Flat texts: a letter, spaces and line breaks
FlatTexts == UNION {[1..n -> {"a", " ", "\n"}] : n \in 0..MaxTextLen}

\* A segment whose j-th word is spoken from j-1 to j and that ends with or
\* after its last word; without words it carries a text of its own.
TimedSegment(ws, tail, spk) ==
    Segment(<<0, Len(ws) + tail>>,
            IF ws = <<>> THEN <<" ", "a", " ", "b", "b">>
            ELSE Flatten([j \in DOMAIN ws |-> ws[j]]),
            [j \in DOMAIN ws |-> [start |-> j - 1, end |-> j, word |-> ws[j]]], spk)

\* Transcripts of one segment, or of one segment and a fixed second one
Transcripts ==
    {<<TimedSegment(ws, tail, spk)>> : ws \in PlainLists, tail \in 0..1, spk \in Speakers}
    \cup {<<TimedSegment(ws, 0, NoneVal), TimedSegment(<<<<" ", "a">>>>, 1, NoneVal)>> :
            ws \in PlainLists}

Ops == {"format_timestamp", "join_words", "process_text", "subtitle_iterator",
        "write_vtt", "write_srt", "get_subs", "mark_speakers", "perform_extra"}

\* The arguments each function is called with; write_vtt and write_srt
\* with their default maxLineWidth None
ArgsOf(fn) ==
    IF fn = "format_timestamp"
    THEN [seconds_q : Quarters, always_include_hours : BOOLEAN,
          fractionalSeperator : {<<".">>, <<",">>}]
    ELSE IF fn = "join_words"
    THEN [words : TokenLists, maxLineWidth : Widths]
    ELSE IF fn = "process_text"
    THEN [text : FlatTexts, maxLineWidth : {-1, 0, 1, 2, 3, MaxTextLen + 1}]
    ELSE IF fn = "subtitle_iterator"
    THEN [transcript : Transcripts, maxLineWidth : Widths, highlight_words : BOOLEAN]
    ELSE IF fn \in {"write_vtt", "write_srt"}
    THEN [transcript : {<<Segment(WholeSpan, t, <<>>, spk)>> :
                           t \in ArrowTexts, spk \in Speakers},
          maxLineWidth : {-1}, highlight_words : {FALSE}]
    ELSE IF fn = "mark_speakers"
    THEN [intervals : OrderedIntervals, input : MergerResults]
    ELSE IF fn = "get_subs"
    THEN [segments : {<<>>} \cup {<<seg>> : seg \in SmallSegments}, format : Formats,
          maxLineWidth : {40, 80}, highlight : BOOLEAN]
    ELSE {<<>>}

NoValue == [raised |-> FALSE, out |-> <<>>]

Returned(v) ==
    /\ value' = v
    /\ pc' = "done"
    /\ outcome' = IF v.raised THEN "raised" ELSE "returned"
    /\ UNCHANGED <<req, deleteUploadedFiles, diarization, diarization_kwargs, sources,
                   k, source_index, total_duration, current_progress, listener,
                   reports, last_report, sink, download, text, vtt, zip_file_lookup,
                   archive, removals, merged, calls, pending, ret>>
    /\ UNCHANGED wvars
    /\ UNCHANGED <<op, args>>
    /\ UNCHANGED tvars

\* utils.py:37-51
FormatTimestamp ==
    /\ pc = "call"
    /\ op = "format_timestamp"
    /\ Returned(FormatTimestampCall(args.seconds_q, args.always_include_hours,
                                    args.fractionalSeperator))

\* utils.py:328-357
JoinWordsCall ==
    /\ pc = "call"
    /\ op = "join_words"
    /\ \E r \in {JoinWords(args.words, args.maxLineWidth)} :
          Returned([raised |-> r.raised, out |-> r.text])

\* utils.py:359-364, and the same call on what it returned
ProcessText ==
    /\ pc = "call"
    /\ op = "process_text"
    /\ \E r \in {process_text(args.text, args.maxLineWidth)} :
          Returned([raised |-> r.raised, out |-> r.text,
                    again |-> process_text(r.text, args.maxLineWidth).text])

\* utils.py:238-326: the generator run to its end
SubtitleCues ==
    /\ pc = "call"
    /\ op = "subtitle_iterator"
    /\ \E r \in {SubtitleIterator(args.transcript, 1, args.maxLineWidth,
                                  args.highlight_words, <<>>)} :
          Returned([raised |-> r.raised, out |-> r.cues, segments |-> r.segments])

\* utils.py:190-208
WriteVtt ==
    /\ pc = "call"
    /\ op = "write_vtt"
    /\ \E r \in {write_vtt(args.transcript, args.maxLineWidth, args.highlight_words)} :
          Returned([raised |-> r.raised, out |-> Flatten(r.out)])

\* utils.py:210-236
WriteSrt ==
    /\ pc = "call"
    /\ op = "write_srt"
    /\ \E r \in {write_srt(args.transcript, args.maxLineWidth, args.highlight_words)} :
          Returned([raised |-> r.raised, out |-> Flatten(r.out)])

\* app.py:539-552
GetSubsCall ==
    /\ pc = "call"
    /\ op = "get_subs"
    /\ \E r \in {GetSubs(args.segments, args.format, args.maxLineWidth, args.highlight)} :
          Returned([raised |-> r.raised, out |-> r.out])

\* A variant of MarkSpeakers that returns its input without calling the merger.
MarkSpeakersSkipped ==
    /\ pc = "call"
    /\ op = "mark_speakers"
    /\ Returned([raised |-> FALSE, out |-> args.input, again |-> args.input])

\* DiarizationContainer.mark_speakers (app.py:426), and the same call on
\* what it returned
MarkSpeakers ==
    /\ pc = "call"
    /\ op = "mark_speakers"
    /\ \E r \in {mark_speakers(args.intervals, args.input)} :
          Returned([raised |-> FALSE, out |-> r,
                    again |-> mark_speakers(args.intervals, r)])

\* One function called with any of its arguments; perform_extra is called
\* without a whisper_file on a transcriber in any diarization configuration.
InitUtils ==
    /\ op \in Ops
    /\ args \in ArgsOf(op)
    /\ value = NoValue
    /\ pc = IF op = "perform_extra" THEN "entry" ELSE "call"
    /\ req \in IF op = "perform_extra"
               THEN {r \in Requests : r.entry = "extra" /\ ~r.whisper_file}
               ELSE {r \in Requests : r.entry = "full" /\ r.whisper_file
                                        /\ ~r.diarization /\ ~r.highlight_words}
    /\ deleteUploadedFiles = FALSE
    /\ diarization \in IF op = "perform_extra" THEN BOOLEAN ELSE {FALSE}
    /\ diarization_kwargs \in IF op = "perform_extra" THEN BOOLEAN ELSE {FALSE}
    /\ sources = <<>>
    /\ k = 0
    /\ source_index = 0
    /\ total_duration = 0
    /\ current_progress = 0
    /\ listener = NoListener
    /\ reports = 0
    /\ last_report = 0
    /\ sink = <<>>
    /\ download = <<>>
    /\ text = <<>>
    /\ vtt = <<>>
    /\ zip_file_lookup = <<>>
    /\ archive = <<>>
    /\ removals = <<>>
    /\ merged = <<>>
    /\ calls = <<>>
    /\ pending = "none"
    /\ outcome = "running"
    /\ ret = NoRet
    /\ wpc = "idle"
    /\ result = NoResult
    /\ orig = <<>>
    /\ source_name = <<>>
    /\ highlight_words = FALSE
    /\ vtt_cues = <<>>
    /\ srt_cues = <<>>
    /\ subs = NoSubs
    /\ failed_in = ""
    /\ wret = NoRet
    /\ fs = <<>>
    /\ threads = <<>>

NextUtils ==
    \/ FormatTimestamp
    \/ JoinWordsCall
    \/ ProcessText
    \/ SubtitleCues
    \/ WriteVtt
    \/ WriteSrt
    \/ GetSubsCall
    \/ MarkSpeakers
    \/ EnterExtra

SpecUtils == InitUtils /\ [][NextUtils]_vars

\* ------------------------------------------ requests on one transcriber
\* app.py:576-723: one WhisperTranscriber (ui) serves every request, and
\* gradio runs its handlers on up to max_threads worker threads. Each thread
\* is followed through the steps that touch the shared diarization fields:
\* the entry function (set_diarization / unset_diarization) and, per source,
\* _handle_diarization.
MaxThreads == 2

ThreadIds == 1..MaxThreads

\* perform_extra takes a single file (app.py:215, override_max_sources=1)
ThreadRequests ==
    {r \in [entry : {"full", "extra"}, diarization : BOOLEAN, count : 1..MaxSources] :
        r.entry = "extra" => r.count = 1}

NewThread(r) == [at |-> "entry", request |-> r, runs |-> <<>>]

\* runs gets one entry per source: how often the merger ran on its result
AfterSource(thread, ran) ==
    [thread EXCEPT !.runs = Append(@, ran),
                   !.at = IF Len(thread.runs) + 1 = thread.request.count
                          THEN "done" ELSE "source"]

OnlyThreads ==
    /\ UNCHANGED <<pc, req, deleteUploadedFiles, sources, k, source_index,
                   total_duration, current_progress, listener, reports, last_report,
                   sink, download, text, vtt, zip_file_lookup, archive, removals,
                   merged, calls, pending, outcome, ret>>
    /\ UNCHANGED wvars
    /\ UNCHANGED uvars

\* app.py:176-180 (and 127-130) on a worker thread
ThreadEnterFull ==
    \E t \in ThreadIds :
        /\ threads[t].at = "entry"
        /\ threads[t].request.entry = "full"
        /\ diarization' = (diarization \/ threads[t].request.diarization)
        /\ diarization_kwargs' = threads[t].request.diarization
        /\ threads' = [threads EXCEPT ![t].at = "source"]
        /\ OnlyThreads

\* app.py:197-201 on a worker thread
ThreadEnterExtra ==
    \E t \in ThreadIds :
        /\ threads[t].at = "entry"
        /\ threads[t].request.entry = "extra"
        /\ diarization' = (diarization \/ threads[t].request.diarization)
        /\ diarization_kwargs' = threads[t].request.diarization
        /\ threads' = [threads EXCEPT ![t].at = "source"]
        /\ OnlyThreads

\* app.py:410-411: transcribe_file ends with _handle_diarization (414-427)
ThreadTranscribe ==
    \E t \in ThreadIds :
        /\ threads[t].at = "source"
        /\ threads[t].request.entry = "full"
        /\ threads' = [threads EXCEPT ![t] =
              AfterSource(@, IF DiarizationEnabled(diarization, diarization_kwargs)
                             THEN 1 ELSE 0)]
        /\ UNCHANGED <<diarization, diarization_kwargs>>
        /\ OnlyThreads

\* app.py:203-213: custom_transcribe_file calls _handle_diarization (414-427)
ThreadOverride ==
    \E t \in ThreadIds :
        /\ threads[t].at = "source"
        /\ threads[t].request.entry = "extra"
        /\ threads' = [threads EXCEPT ![t] =
              AfterSource(@, IF DiarizationEnabled(diarization, diarization_kwargs)
                             THEN 1 ELSE 0)]
        /\ UNCHANGED <<diarization, diarization_kwargs>>
        /\ OnlyThreads

InitShared ==
    /\ threads \in [ThreadIds -> {NewThread(r) : r \in ThreadRequests}]
    /\ pc = "threads"
    /\ req \in {r \in Requests : r.entry = "full" /\ r.whisper_file
                                   /\ ~r.diarization /\ ~r.highlight_words}
    /\ deleteUploadedFiles = FALSE
    /\ diarization = FALSE
    /\ diarization_kwargs = FALSE
    /\ sources = <<>>
    /\ k = 0
    /\ source_index = 0
    /\ total_duration = 0
    /\ current_progress = 0
    /\ listener = NoListener
    /\ reports = 0
    /\ last_report = 0
    /\ sink = <<>>
    /\ download = <<>>
    /\ text = <<>>
    /\ vtt = <<>>
    /\ zip_file_lookup = <<>>
    /\ archive = <<>>
    /\ removals = <<>>
    /\ merged = <<>>
    /\ calls = <<>>
    /\ pending = "none"
    /\ outcome = "running"
    /\ ret = NoRet
    /\ wpc = "idle"
    /\ result = NoResult
    /\ orig = <<>>
    /\ source_name = <<>>
    /\ highlight_words = FALSE
    /\ vtt_cues = <<>>
    /\ srt_cues = <<>>
    /\ subs = NoSubs
    /\ failed_in = ""
    /\ wret = NoRet
    /\ fs = <<>>
    /\ op = ""
    /\ args = <<>>
    /\ value = <<>>

NextShared == ThreadEnterFull \/ ThreadEnterExtra \/ ThreadTranscribe \/ ThreadOverride

SpecShared == InitShared /\ [][NextShared]_vars

\* ------------------------------------------------------------- properties
\* The segments write_result was called with that have word timing, when
\* highlighting is on
HighlightedSegments == {i \in DOMAIN orig : highlight_words /\ orig[i].words # <<>>}

Tiles(cues, s, e) ==
    /\ cues # <<>>
    /\ cues[1].start = s
    /\ cues[Len(cues)].end = e
    /\ \A j \in DOMAIN cues : cues[j].start <= cues[j].end
    /\ \A j \in 1..(Len(cues) - 1) : cues[j].end = cues[j + 1].start

\* The word times lie inside the segment, in order and without overlap.
WordsOrdered(seg) ==
    /\ seg.start <= seg.words[1].start
    /\ \A j \in DOMAIN seg.words : seg.words[j].start <= seg.words[j].end
    /\ \A j \in 1..(Len(seg.words) - 1) : seg.words[j].end <= seg.words[j + 1].start
    /\ seg.words[Len(seg.words)].end <= seg.end

\* C1 as stated: with highlighting on, the cues of a segment with words tile
\* [segment.start, segment.end] (first cue starts at the start, last cue ends
\* at the end, each cue ends where the next starts, no cue has start > end),
\* whatever the word times are.
C1_TilesForAnyWordTimes ==
    \A i \in HighlightedSegments :
        /\ i \in DOMAIN vtt_cues => Tiles(vtt_cues[i], orig[i].start, orig[i].end)
        /\ i \in DOMAIN srt_cues => Tiles(srt_cues[i], orig[i].start, orig[i].end)

\* C1 amended: with highlighting on, the cues of a segment with words tile
\* [segment.start, segment.end] when the word times lie inside the segment,
\* in order and without overlap; this holds of the VTT and of the SRT run.
C1_TilesForOrderedWordTimes ==
    \A i \in HighlightedSegments :
        WordsOrdered(orig[i]) =>
            /\ i \in DOMAIN vtt_cues => Tiles(vtt_cues[i], orig[i].start, orig[i].end)
            /\ i \in DOMAIN srt_cues => Tiles(srt_cues[i], orig[i].start, orig[i].end)

C1_Witness ==
    /\ wpc = "html"
    /\ \E i \in HighlightedSegments :
        /\ Len(orig[i].words) = 2
        /\ WordsOrdered(orig[i])
        /\ orig[i].words[1].end < orig[i].words[2].start
        /\ Len(vtt_cues[i]) >= 4
        /\ Tiles(srt_cues[i], orig[i].start, orig[i].end)

CountWithin(cues, n, p) == n + p <= Len(cues) /\ Len(cues) <= 2 * n + 1 + p

\* C2 as stated: with highlighting on, a segment with N > 0 words yields an
\* odd number of cues, at most 2N+1, with or without a speaker label.
C2_OddAndAtMost2NPlus1 ==
    \A i \in HighlightedSegments :
        i \in DOMAIN vtt_cues =>
            /\ Len(vtt_cues[i]) % 2 = 1
            /\ Len(vtt_cues[i]) <= 2 * Len(orig[i].words) + 1

\* C2 amended: with highlighting on, a segment with N > 0 words yields between
\* N + P and 2N + 1 + P cues, of either parity, where P is the number of
\* speaker pseudo-words at the head of its word list during the run: 0 without
\* a speaker label, 1 in write_result's VTT run and 2 in its SRT run with one.
C2_CountBetweenNAnd2NPlus1 ==
    \A i \in HighlightedSegments :
        /\ i \in DOMAIN vtt_cues =>
              CountWithin(vtt_cues[i], Len(orig[i].words),
                          IF orig[i].longest_speaker # NoneVal THEN 1 ELSE 0)
        /\ i \in DOMAIN srt_cues =>
              CountWithin(srt_cues[i], Len(orig[i].words),
                          IF orig[i].longest_speaker # NoneVal THEN 2 ELSE 0)

C2_Witness ==
    /\ wpc = "html"
    /\ \E i \in HighlightedSegments :
        /\ Len(orig[i].words) = 2
        /\ orig[i].longest_speaker # NoneVal
        /\ Len(vtt_cues[i]) = 6
        /\ Len(srt_cues[i]) = 7

\* C3 as stated: the SRT run of the caption synthesizer, on the same segments
\* with the same width and highlight flag, yields the cues of the VTT run.
C3_SecondRunYieldsSameCues ==
    wpc \in {"html", "files", "returned"} => srt_cues = vtt_cues

\* C4 as stated: after write_result returns, every segment is as it was
\* before the call.
C4_SegmentsUnchanged ==
    wpc = "returned" => result.segments = orig

\* C5 as stated: for a result whose segments carry no speaker label the HTML
\* renderer succeeds with an empty speaker id and write_result completes.
C5_UnlabelledHtmlSucceeds ==
    (\A i \in DOMAIN orig : orig[i].longest_speaker = NoneVal) =>
        /\ wpc # "raised"
        /\ wpc \in {"files", "returned"} =>
              /\ Len(subs.html) = Len(orig)
              /\ \A i \in DOMAIN subs.html : subs.html[i].speakerid = <<>>

\* The texts written to the transcript files, in the order of their creation
TxtFiles == SelectSeq(fs, LAMBDA f : f.name[Len(f.name)] = TxtPostfix[Len(TxtPostfix)])

TwoNonEmptyTexts ==
    /\ outcome = "returned"
    /\ Len(sources) = 2
    /\ Len(TxtFiles) = 2
    /\ TxtFiles[1].content # <<>>
    /\ TxtFiles[2].content # <<>>

NamedText(j) == get_full_name(sources[j]) \o <<":">> \o NL \o TxtFiles[j].content

\* C6 as stated: for two sources with non-empty texts the combined text is
\* "<name1>:" newline text1, a blank line, "<name2>:" newline text2, and
\* nothing after text2.
C6_NothingAfterLastText ==
    TwoNonEmptyTexts => ret.text = NamedText(1) \o NL \o NL \o NamedText(2)

\* C6 amended: for two sources with non-empty texts the combined text is
\* "<name1>:" newline text1, a blank line, "<name2>:" newline text2, and the
\* same two line separators after text2 as after text1.
C6_SeparatorAfterEveryText ==
    TwoNonEmptyTexts =>
        ret.text = NamedText(1) \o NL \o NL \o NamedText(2) \o NL \o NL

C6_Witness ==
    /\ TwoNonEmptyTexts
    /\ get_full_name(sources[1]) # get_full_name(sources[2])
    /\ ret.text = NamedText(1) \o NL \o NL \o NamedText(2) \o NL \o NL

\* C7 as stated: when a dispatch completes, the progress sink has received
\* exactly 1.0 as its last value, on the engine path and on the override path.
C7_SinkReachesOne ==
    outcome = "returned" =>
        /\ sink # <<>>
        /\ sink[Len(sink)].num = sink[Len(sink)].den

SumBefore(j) == SumDurations(SubSeq(sources, 1, j - 1))

\* C8: when the call for source k starts, its listener has base total = the
\* sum of all durations, start = the sum of the durations before k and total
\* = the duration of k; the progress is the sum of the durations of the
\* sources done, never exceeds the total, and equals it after the last source.
C8_ListenerSlices ==
    /\ pc \in {"recognize", "override"} =>
          listener = [base_task_total |-> SumDurations(sources),
                      sub_task_start |-> SumBefore(k),
                      sub_task_total |-> get_audio_duration(sources[k])]
    /\ pc \in {"loop", "recognize", "override", "diarize", "post"} =>
          current_progress = SumBefore(k)
    /\ pc = "write" => current_progress = SumBefore(k + 1)
    /\ current_progress <= total_duration
    /\ pending = "returned" => current_progress = total_duration

C8_Witness ==
    /\ pc = "recognize"
    /\ k = 2
    /\ listener = [base_task_total |-> 150, sub_task_start |-> 100, sub_task_total |-> 50]

Contains(s, sub) ==
    \E i \in 1..(Len(s) - Len(sub) + 1) : SubSeq(s, i, i + Len(sub) - 1) = sub

\* C9: when the source provider raises ExceededMaximumDuration, no engine or
\* override call is made, no file or archive is written, and the dispatch
\* returns no files, a message holding the maximum and the offending
\* duration, and the VTT value "[ERROR]".
C9_ExceededAborts ==
    outcome = "error" =>
        /\ calls = <<>>
        /\ merged = <<>>
        /\ fs = <<>>
        /\ archive = <<>>
        /\ ret.files = <<>>
        /\ ret.vtt = <<"[ERROR]">>
        /\ \E e \in ExceedCases :
            /\ Contains(ret.text, Str(e.maxDuration))
            /\ Contains(ret.text, Str(e.videoDuration))

C9_Witness ==
    /\ outcome = "error"
    /\ pc = "done"
    /\ Contains(ret.text, <<"6", "0">>)
    /\ Contains(ret.text, <<"7", "5">>)

AllOutputsWritten ==
    /\ Len(fs) = 5 * Len(sources)
    /\ Len(sources) > 1 => archive # <<>>

\* C10 as stated: a removal is attempted only after all outputs of all
\* sources, the archive included, have been written.
C10_RemovalOnlyAfterAllOutputs ==
    removals # <<>> => AllOutputsWritten

RemovalState ==
    /\ ~deleteUploadedFiles => removals = <<>>
    /\ removals # <<>> =>
          /\ pc \in {"cleanup", "done"}
          /\ pending \in {"returned", "raised"}
          /\ pending = "returned" => AllOutputsWritten
    /\ \A j \in DOMAIN removals : removals[j].path = sources[j].path
    /\ (pc = "done" /\ pending # "none" /\ deleteUploadedFiles) =>
          Len(removals) = Len(sources)
    /\ outcome = "returned" => ret = [files |-> download, text |-> text, vtt |-> vtt]

RemovalStep ==
    removals' # removals =>
        /\ UNCHANGED <<download, text, vtt, pending, fs, archive>>
        /\ Len(removals') = Len(removals) + 1

\* C10 amended: with the option on, removals are attempted only once the loop
\* and the archive step are over, by completion (all outputs written) or by
\* an exception (outputs possibly missing); every source gets its attempt,
\* failed or not, and an attempt changes nothing of what is returned or
\* raised.  With the option off, nothing is removed.
C10_RemovalAfterLoopEnds == []RemovalState /\ [][RemovalStep]_vars

C10_Witness ==
    /\ pc = "done"
    /\ outcome = "returned"
    /\ Len(sources) = 2
    /\ Len(removals) = 2
    /\ ~removals[1].ok
    /\ AllOutputsWritten
    /\ ret.files # <<>>

\* The files of source j as write_result returns them, taken from the files
\* created: the JSON file is created first and returned last.
WrittenFor(j) ==
    <<fs[5 * (j - 1) + 2].name, fs[5 * (j - 1) + 3].name, fs[5 * (j - 1) + 4].name,
      fs[5 * (j - 1) + 5].name, fs[5 * (j - 1) + 1].name>>

WrittenUpTo(n) == Flatten([j \in 1..n |-> WrittenFor(j)])

ArchiveSlug(j) ==
    slugify(ZeroPad(Str(j), 2) \o <<"_">> \o get_short_name(sources[j], 200))

Postfixes == {"result.json", "subs.srt", "subs.vtt", "transcript.txt", "transcript.html"}

\* C11: a completed dispatch over more than one source returns the archive
\* path and then the files of every source in source order; the archive has
\* one entry per file, five per source, named "<archive slug>-<postfix>",
\* no two alike.  Over one source there is no archive and the list holds
\* that source's five files.
C11_ArchiveAndFileList ==
    outcome = "returned" =>
        /\ Len(fs) = 5 * Len(sources)
        /\ Len(sources) = 1 => archive = <<>> /\ ret.files = WrittenFor(1)
        /\ Len(sources) > 1 =>
              /\ ret.files = <<ArchiveName>> \o WrittenUpTo(Len(sources))
              /\ Len(archive) = 5 * Len(sources)
              /\ \A i \in DOMAIN archive :
                    /\ archive[i].file = ret.files[i + 1]
                    /\ archive[i].file[Len(archive[i].file)] \in Postfixes
                    /\ archive[i].arcname =
                          ArchiveSlug(((i - 1) \div 5) + 1) \o <<"-">>
                            \o <<archive[i].file[Len(archive[i].file)]>>
              /\ \A i, j \in DOMAIN archive :
                    i # j => archive[i].arcname # archive[j].arcname

C11_Witness ==
    /\ outcome = "returned"
    /\ Len(sources) = 2
    /\ get_full_name(sources[1]) = get_full_name(sources[2])
    /\ Len(archive) = 10
    /\ ret.files[1] = ArchiveName
    /\ Len(ret.files) = 11

\* The file prefix of source j, read off the name of its JSON file
WrittenPrefix(j) ==
    SubSeq(fs[5 * (j - 1) + 1].name, 1, Len(fs[5 * (j - 1) + 1].name) - Len(JsonPostfix))

SourcesWritten == {j \in DOMAIN sources : 5 * (j - 1) + 1 \in DOMAIN fs}

\* C12: over more than one source, the files of the k-th source carry the
\* prefix slugify(k padded to two digits, "_", short name); two sources never
\* get the same prefix, whatever their names, and no file is created twice.
C12_DistinctPrefixes ==
    Len(sources) > 1 =>
        /\ \A j \in SourcesWritten :
              WrittenPrefix(j) =
                  slugify(ZeroPad(Str(j), 2) \o <<"_">>
                            \o get_short_name(sources[j], MAX_FILE_PREFIX_LENGTH))
        /\ \A i, j \in SourcesWritten : i # j => WrittenPrefix(i) # WrittenPrefix(j)
        /\ \A i, j \in DOMAIN fs : i # j => fs[i].name # fs[j].name

C12_Witness ==
    /\ Len(sources) = 2
    /\ Len(fs) = 10
    /\ get_full_name(sources[1]) = get_full_name(sources[2])
    /\ WrittenPrefix(1) = <<"0", "1", "_", "a">>
    /\ WrittenPrefix(2) = <<"0", "2", "_", "a">>

C12_WitnessEmptySlug ==
    /\ Len(sources) = 2
    /\ Len(fs) >= 1
    /\ slugify(get_full_name(sources[1])) = <<>>
    /\ WrittenPrefix(1) = <<"0", "1">>

\* The subtitles written to the VTT files, in the order of their creation
VttFiles == SelectSeq(fs, LAMBDA f : f.name[Len(f.name)] = VttPostfix[Len(VttPostfix)])

\* What one source adds to a combined text: over several sources its name,
\* a colon and a line separator come first, and two line separators follow
\* a non-empty text.
Piece(j, content) ==
    IF Len(sources) > 1
    THEN get_full_name(sources[j]) \o <<":">> \o NL
           \o (IF content # <<>> THEN content \o NL \o NL ELSE <<>>)
    ELSE content

InOrderOneAtATime ==
    /\ \A i \in DOMAIN calls : calls[i] = i
    /\ pc \in {"recognize", "override", "diarize", "post"} =>
          /\ Len(calls) = k
          /\ Len(fs) = 5 * (k - 1)
    /\ outcome = "returned" =>
          /\ ret.text = Flatten([j \in DOMAIN sources |-> Piece(j, TxtFiles[j].content)])
          /\ ret.vtt = Flatten([j \in DOMAIN sources |-> Piece(j, VttFiles[j].content)])
    /\ archive # <<>> => Len(fs) = 5 * Len(sources)

\* C13 as stated: the call for source k+1 starts only after the files of
\* source k are written, the combined text and VTT follow the input order,
\* the archive is created after the last source's files, and sources are
\* removed only after that.
C13_CleanupOnlyAfterArchive ==
    /\ InOrderOneAtATime
    /\ removals # <<>> => (Len(fs) = 5 * Len(sources) /\ (Len(sources) > 1 => archive # <<>>))

\* C13 amended: the call for source k+1 starts only after the files of
\* source k are written, the combined text and VTT follow the input order,
\* the archive is created after the last source's files, and sources are
\* removed only after the loop and the archive step are over: after the
\* archive when the dispatch completes, without it when an exception ended
\* the loop.
C13_CleanupAfterLoopEnds ==
    /\ InOrderOneAtATime
    /\ removals # <<>> =>
          /\ pc \in {"cleanup", "done"}
          /\ pending = "returned" =>
                (Len(fs) = 5 * Len(sources) /\ (Len(sources) > 1 => archive # <<>>))
          /\ pending = "raised" => archive = <<>>

C13_Witness ==
    /\ outcome = "returned"
    /\ Len(sources) = 2
    /\ TxtFiles[1].content # <<>>
    /\ TxtFiles[2].content # <<>>
    /\ get_full_name(sources[1]) # get_full_name(sources[2])
    /\ Len(removals) = 2
    /\ archive # <<>>

\* The line 'start --> end' of a cue
TimeLine(cue, hours, sep) ==
    format_timestamp(cue.start, hours, sep) \o <<" ", "-", "-", ">", " ">>
      \o format_timestamp(cue.end, hours, sep)

\* N cues as SRT: block i is the line i, the time line, the cue text and a
\* blank line
ExpectedSrt(cues) ==
    Flatten([i \in DOMAIN cues |->
               Str(i) \o NL \o TimeLine(cues[i], TRUE, <<",">>) \o NL
                 \o ReplaceArrow(cues[i].text) \o NL \o NL])

\* N cues as VTT: the header line, a blank line, and per cue the time line,
\* the cue text and a blank line
ExpectedVtt(cues) ==
    WebVtt \o NL \o NL \o
    Flatten([i \in DOMAIN cues |->
               TimeLine(cues[i], FALSE, <<".">>) \o NL
                 \o ReplaceArrow(cues[i].text) \o NL \o NL])

\* Where the blocks of a text start: at its begin and after every blank line
BlockStarts(str) ==
    {p \in 1..Len(str) : p = 1 \/ (p > 2 /\ str[p-1] = "\n" /\ str[p-2] = "\n")}

\* The line at position p is the decimal numeral of i
IndexAt(str, p, numeral) ==
    /\ p + Len(numeral) <= Len(str)
    /\ SubSeq(str, p, p + Len(numeral) - 1) = numeral
    /\ str[p + Len(numeral)] = "\n"

\* n blocks, and each of 1..n is the first line of exactly one of them
Numbered(str, starts, n) ==
    /\ Cardinality(starts) = n
    /\ \A i \in 1..n : Cardinality({p \in starts : IndexAt(str, p, Str(i))}) = 1

\* C14: the SRT text of N cues is N blocks in cue order, numbered 1..N
\* without gap or repeat, each the index line, the 'start --> end' line,
\* the cue text and a blank line; the VTT text of N cues is the line
\* 'WEBVTT', a blank line and the N cues in the same order.  Each text is
\* looked at when its renderer has returned.
C14_BlocksInCueOrder ==
    /\ wpc = "html" =>
          LET Holds(cues) ==
                /\ subs.srt = ExpectedSrt(cues)
                /\ Numbered(subs.srt, BlockStarts(subs.srt), Len(cues))
          IN Holds(Flatten(srt_cues))
    /\ wpc = "srt" => subs.vtt = ExpectedVtt(Flatten(vtt_cues))

C14_Witness ==
    /\ wpc = "html"
    /\ Len(Flatten(srt_cues)) >= 3
    /\ Len(Flatten(vtt_cues)) >= 3
    /\ \E i \in 1..Len(Flatten(srt_cues)) : Flatten(srt_cues)[i].start # 0

\* How often the separator '-->' occurs in a text
CountArrows(str) == Cardinality({i \in 1..Len(str) : ArrowAt(str, i)})

\* C15: for every cue text over '-', '>' and letters, the SRT or VTT text
\* written holds the separator '-->' once per cue, between the two
\* timestamps, and nowhere in the cue text.
C15_NoSeparatorInCueText ==
    (op \in {"write_vtt", "write_srt"} /\ pc = "done" /\ ~value.raised) =>
        CountArrows(value.out) = Len(args.transcript)

\* The number a string of digits denotes
RECURSIVE Num(_)
Num(digits) ==
    IF digits = <<>> THEN 0
    ELSE 10 * Num(SubSeq(digits, 1, Len(digits) - 1))
           + (CHOOSE d \in 0..9 : DigitChars[d + 1] = digits[Len(digits)])

AllDigits(str) == \A i \in DOMAIN str : \E d \in 0..9 : DigitChars[d + 1] = str[i]

\* The fields of a timestamp: [hours:]MM:SS<sep>mmm, read from its end
Fields(str, sep) ==
    LET n == Len(str)
        withHours == n > 9
        hh == IF withHours THEN SubSeq(str, 1, n - 10) ELSE <<>>
        mm == SubSeq(str, n - 8, n - 7)
        ss == SubSeq(str, n - 5, n - 4)
        fff == SubSeq(str, n - 2, n)
    IN [wellformed |-> /\ n >= 9
                       /\ AllDigits(hh) /\ AllDigits(mm) /\ AllDigits(ss) /\ AllDigits(fff)
                       /\ str[n - 3] = sep[1]
                       /\ str[n - 6] = ":"
                       /\ withHours => (str[n - 9] = ":" /\ Len(hh) >= 2),
        withHours |-> withHours,
        hours |-> IF AllDigits(hh) THEN Num(hh) ELSE 0,
        minutes |-> IF AllDigits(mm) THEN Num(mm) ELSE 0,
        seconds |-> IF AllDigits(ss) THEN Num(ss) ELSE 0,
        milliseconds |-> IF AllDigits(fff) THEN Num(fff) ELSE 0]

Total(fl) ==
    fl.hours * 3600000 + fl.minutes * 60000 + fl.seconds * 1000 + fl.milliseconds

Formatted == op = "format_timestamp" /\ pc = "done" /\ args.seconds_q >= 0

\* 3661.2005 * 1000.0 is the float 3661200.5, in quarters of a millisecond
HalfwayExample == 4 * 3661200 + 2

IsExample ==
    /\ args.seconds_q = HalfwayExample
    /\ args.always_include_hours
    /\ args.fractionalSeperator = <<".">>

Nearest(fl) ==
    /\ fl.wellformed
    /\ 4 * Total(fl) - args.seconds_q \in -2..2

\* C16 as stated: format_timestamp rounds to the nearest millisecond, a value
\* halfway between two milliseconds is rounded up, and 3661.2005 with forced
\* hours gives "01:01:01.201".
C16_HalfwayRoundsUp ==
    Formatted =>
        /\ Nearest(Fields(value.out, args.fractionalSeperator))
        /\ args.seconds_q % 4 = 2 =>
              4 * Total(Fields(value.out, args.fractionalSeperator)) = args.seconds_q + 2
        /\ IsExample =>
              value.out = <<"0", "1", ":", "0", "1", ":", "0", "1", ".", "2", "0", "1">>

\* C16 amended: format_timestamp rounds to the nearest millisecond, a value
\* halfway between two milliseconds is rounded to the even one of the two,
\* and 3661.2005 with forced hours gives "01:01:01.200".
C16_HalfwayRoundsToEven ==
    Formatted =>
        /\ Nearest(Fields(value.out, args.fractionalSeperator))
        /\ args.seconds_q % 4 = 2 =>
              Total(Fields(value.out, args.fractionalSeperator)) % 2 = 0
        /\ IsExample =>
              value.out = <<"0", "1", ":", "0", "1", ":", "0", "1", ".", "2", "0", "0">>

C16_Witness ==
    /\ Formatted
    /\ IsExample
    /\ ~value.raised
    /\ Len(value.out) = 12

\* a halfway value that is rounded upwards, to the even millisecond
C16_WitnessUp ==
    /\ Formatted
    /\ args.seconds_q = 4 * 3599999 + 2
    /\ Total(Fields(value.out, args.fractionalSeperator)) = 3600000

\* C17: for a whole number of milliseconds, minutes and seconds are two
\* digits in 0..59, milliseconds three digits in 0..999, the fields add up to
\* the input, and the hours part is there iff always_include_hours is set or
\* hours > 0; format(0) is "00:00.000", with forced hours "00:00:00.000".
C17_FieldsRecomposeInput ==
    (Formatted /\ args.seconds_q % 4 = 0) =>
        LET Holds(fl) ==
              /\ fl.wellformed
              /\ fl.minutes \in 0..59
              /\ fl.seconds \in 0..59
              /\ fl.milliseconds \in 0..999
              /\ 4 * Total(fl) = args.seconds_q
              /\ fl.withHours <=> (args.always_include_hours \/ fl.hours > 0)
              /\ args.seconds_q = 0 =>
                    value.out = (IF args.always_include_hours
                                 THEN <<"0", "0", ":">> ELSE <<>>)
                                  \o <<"0", "0", ":", "0", "0">>
                                  \o args.fractionalSeperator \o <<"0", "0", "0">>
        IN Holds(Fields(value.out, args.fractionalSeperator))

\* one hour, 59 minutes, 59 seconds and 999 milliseconds, hours not forced
C17_Witness ==
    /\ Formatted
    /\ args.seconds_q = 4 * (3600000 + 59 * 60000 + 59 * 1000 + 999)
    /\ ~args.always_include_hours
    /\ value.out = <<"0", "1", ":", "5", "9", ":", "5", "9">>
                     \o args.fractionalSeperator \o <<"9", "9", "9">>

PreconditionViolated ==
    \/ op = "format_timestamp" /\ args.seconds_q < 0
    \/ op = "get_subs" /\ args.format \notin {"vtt", "srt", "html"}
    \/ op = "perform_extra" /\ ~req.whisper_file

FailedAtOnce ==
    (pc = "done" /\ PreconditionViolated) =>
        /\ outcome = "raised"
        /\ op # "perform_extra" => (value.raised /\ value.out = <<>>)
        /\ op = "perform_extra" => (sources = <<>> /\ fs = <<>> /\ calls = <<>>)

ConfigurationKept ==
    (op = "perform_extra" /\ ~req.whisper_file) =>
        UNCHANGED <<diarization, diarization_kwargs>>

\* C18: a precondition violation fails at once: format_timestamp with
\* negative seconds raises and produces no string; the format selector with
\* a format other than 'vtt', 'srt', 'html' raises and renders nothing;
\* perform_extra without a whisper_file raises without changing the
\* diarization configuration, resolving a source or writing a file.
C18_PreconditionsFailAtOnce == []FailedAtOnce /\ [][ConfigurationKept]_vars

C18_Witness ==
    /\ pc = "done"
    /\ op = "perform_extra"
    /\ ~req.whisper_file
    /\ req.diarization
    /\ ~diarization
    /\ outcome = "raised"

C18_WitnessFormat ==
    /\ pc = "done"
    /\ op = "get_subs"
    /\ args.format = "txt"
    /\ args.segments # <<>>
    /\ value.raised

C18_WitnessNegative ==
    /\ pc = "done"
    /\ op = "format_timestamp"
    /\ args.seconds_q = -1
    /\ value.raised

\* The first token of the line token i is put on, packing greedily: token i
\* starts a line when the line so far is not empty and would exceed the
\* budget with it.
RECURSIVE SumLengths(_, _, _)
SumLengths(tokens, from, to) ==
    IF from > to THEN 0 ELSE tokens[to].length + SumLengths(tokens, from, to - 1)

RECURSIVE LineStart(_, _, _)
LineStart(tokens, width, i) ==
    IF i = 1 THEN 1
    ELSE LET Same(first) ==
               IF SumLengths(tokens, first, i - 1) + tokens[i].length > width
               THEN i ELSE first
         IN Same(LineStart(tokens, width, i - 1))

\* The tokens written one after the other, a line break before every token
\* that starts a line (but the first)
PackedText(tokens, width) ==
    Flatten([i \in DOMAIN tokens |->
               (IF i > 1 /\ LineStart(tokens, width, i) = i THEN NL ELSE <<>>)
                 \o tokens[i].word])

WithoutBreaks(str) == SelectSeq(str, LAMBDA c : c # "\n")

\* lines of more than one token stay within the budget
LinesWithinBudget(tokens, width) ==
    \A i \in DOMAIN tokens :
        LineStart(tokens, width, i) < i =>
            SumLengths(tokens, LineStart(tokens, width, i), i) <= width

Wrapped == op = "join_words" /\ pc = "done" /\ args.maxLineWidth >= 0

\* C19: with a width budget W >= 0 the tokens are packed greedily in order:
\* a line is started exactly when the current line is not empty and the next
\* token would exceed W; no token is split, dropped or reordered, and a line
\* longer than W holds a single token.
C19_GreedyPacking ==
    Wrapped =>
        /\ ~value.raised
        /\ value.out = PackedText(args.words, args.maxLineWidth)
        /\ WithoutBreaks(value.out) = Flatten([i \in DOMAIN args.words |-> args.words[i].word])
        /\ LinesWithinBudget(args.words, args.maxLineWidth)

\* three {word, length} tokens on two lines, the second line within the
\* budget by the lengths given and beyond it by the characters written
C19_Witness ==
    /\ Wrapped
    /\ Len(args.words) = 3
    /\ args.maxLineWidth = 4
    /\ LineStart(args.words, args.maxLineWidth, 2) = 2
    /\ LineStart(args.words, args.maxLineWidth, 3) = 2
    /\ args.words[3].isdict
    /\ Len(args.words[3].word) > args.words[3].length

\* a single token over the budget keeps its line to itself
C19_WitnessOverlong ==
    /\ Wrapped
    /\ Len(args.words) = 3
    /\ args.maxLineWidth = 2
    /\ \A i \in 1..3 : args.words[i].length = 3 /\ LineStart(args.words, 2, i) = i

\* C20: with a None or negative width all tokens are returned on one line,
\* joined by direct concatenation with no character between them, for plain
\* string tokens and for {word, length} tokens.
C20_NoWidthConcatenates ==
    (op = "join_words" /\ pc = "done" /\ args.maxLineWidth < 0) =>
        /\ ~value.raised
        /\ value.out = Flatten([i \in DOMAIN args.words |-> args.words[i].word])

FlatWrapped == op = "process_text" /\ pc = "done"

\* no whitespace but spaces, none at the end
SpacesInside(str) ==
    /\ \A i \in DOMAIN str : str[i] # "\n"
    /\ str # <<>> => str[Len(str)] # " "

\* words separated by single spaces
SingleSpaced(str) ==
    /\ SpacesInside(str)
    /\ str # <<>> => str[1] # " "
    /\ \A i \in 1..(Len(str) - 1) : ~(str[i] = " " /\ str[i + 1] = " ")

\* no word longer than the budget
WordsWithin(str, width) ==
    \A i \in 1..(Len(str) - width) : \E j \in i..(i + width) : str[j] \in Whitespace

\* C21 as stated: process_text returns every text shorter than the budget
\* unchanged, every text unchanged when there is no budget, and a wrapped
\* result unchanged when it is wrapped again with the same budget.
C21_IdentityOnAnyText ==
    FlatWrapped =>
        /\ Len(args.text) < args.maxLineWidth => (~value.raised /\ value.out = args.text)
        /\ args.maxLineWidth < 0 => (~value.raised /\ value.out = args.text)
        /\ ~value.raised => value.again = value.out

\* C21 amended: process_text returns unchanged every text shorter than the
\* budget that holds no whitespace but spaces and none at its end, and
\* every text when there is no budget; wrapping the wrapped result of a
\* text of single-spaced words, none longer than the budget, again with the
\* same budget returns it unchanged.
C21_IdentityOnRegularText ==
    FlatWrapped =>
        /\ (Len(args.text) < args.maxLineWidth /\ SpacesInside(args.text)) =>
              (~value.raised /\ value.out = args.text)
        /\ args.maxLineWidth < 0 => (~value.raised /\ value.out = args.text)
        /\ (~value.raised /\ SingleSpaced(args.text)
               /\ WordsWithin(args.text, args.maxLineWidth)) => value.again = value.out

\* a text of two words wrapped onto two lines, and wrapped again
C21_Witness ==
    /\ FlatWrapped
    /\ args.text = <<"a", "a", " ", "a">>
    /\ args.maxLineWidth = 3
    /\ value.out = <<"a", "a", "\n", "a">>
    /\ value.again = value.out

\* The words of a flat text: its maximal runs without whitespace, in order
RECURSIVE WordsOf(_)
WordsOf(str) ==
    IF str = <<>> THEN <<>>
    ELSE IF Head(str) \in Whitespace THEN WordsOf(Tail(str))
    ELSE LET stop == CHOOSE j \in 2..(Len(str) + 1) :
                        /\ j = Len(str) + 1 \/ str[j] \in Whitespace
                        /\ \A i \in 2..(j - 1) : str[i] \notin Whitespace
         IN <<SubSeq(str, 1, stop - 1)>> \o WordsOf(SubSeq(str, stop, Len(str)))

\* no line of more than width characters
LinesWithin(str, width) ==
    \A i \in 1..(Len(str) - width) : \E j \in i..(i + width) : str[j] = "\n"

\* every line of the token wrap within the budget, by display length
AllLinesWithinBudget(tokens, width) ==
    \A i \in DOMAIN tokens :
        SumLengths(tokens, LineStart(tokens, width, i), i) <= width

WrapCall == op \in {"join_words", "process_text"} /\ pc = "done" /\ args.maxLineWidth > 0

C22_WitnessToken ==
    /\ WrapCall
    /\ op = "join_words"
    /\ args.maxLineWidth = 2
    /\ Len(args.words) = 2
    /\ args.words[1].length = 2
    /\ args.words[2].length = 3
    /\ LineStart(args.words, 2, 2) = 2

\* A text without the emphasis markup '<u>' and '</u>'
InMarkup(str, i) ==
    \/ \E p \in (i - 2)..i :
          p >= 1 /\ p + 2 <= Len(str) /\ SubSeq(str, p, p + 2) = UOpen
    \/ \E p \in (i - 3)..i :
          p >= 1 /\ p + 3 <= Len(str) /\ SubSeq(str, p, p + 3) = UClose

Unmarked(str) ==
    LET indexed == [i \in DOMAIN str |-> <<i, str[i]>>]
        kept == SelectSeq(indexed, LAMBDA p : ~InMarkup(str, p[1]))
    IN [i \in DOMAIN kept |-> kept[i][2]]

Synthesized == op = "subtitle_iterator" /\ pc = "done" /\ ~value.raised

\* The segment's subtitle_text: its words, as the run left them, joined
SubtitleText(seg, width) ==
    JoinWords([j \in DOMAIN seg.words |-> WordEntry(seg.words[j].word)], width).text

\* C23: for a segment with word timings, a budget W >= 0 and highlighting
\* on, the text of every cue of the segment is, without the markup '<u>'
\* and '</u>', the segment's subtitle_text, so that all its cues break
\* lines at the same tokens.
C23_LineBreaksStable ==
    (Synthesized /\ args.highlight_words /\ args.maxLineWidth >= 0) =>
        \A i \in DOMAIN args.transcript :
            args.transcript[i].words # <<>> =>
                /\ value.out[i] # <<>>
                /\ \A j \in DOMAIN value.out[i] :
                      Unmarked(value.out[i][j].text)
                        = SubtitleText(value.segments[i], args.maxLineWidth)

\* two words that fit the budget of five only without the markup, the
\* second highlighted in the second cue, both cues on one line
C23_Witness ==
    /\ Synthesized
    /\ args.highlight_words
    /\ args.maxLineWidth = 5
    /\ Len(args.transcript) = 1
    /\ args.transcript[1].longest_speaker = NoneVal
    /\ Len(args.transcript[1].words) = 2
    /\ args.transcript[1].words[1].word = <<" ", "a">>
    /\ args.transcript[1].words[2].word = <<" ", "b", "b">>
    /\ Len(value.out[1]) = 2
    /\ value.out[1][2].text = <<" ", "a", " ">> \o UOpen \o <<"b", "b">> \o UClose

\* C24: with highlighting off the synthesizer yields exactly one cue per
\* segment, in segment order, from the segment's start to its end, for
\* segments with word timing and for segments without.
C24_OneCuePerSegment ==
    (Synthesized /\ ~args.highlight_words) =>
        /\ Len(value.out) = Len(args.transcript)
        /\ \A i \in DOMAIN args.transcript :
              /\ Len(value.out[i]) = 1
              /\ value.out[i][1].start = args.transcript[i].start
              /\ value.out[i][1].end = args.transcript[i].end

\* two segments of different spans, the first without words
C24_Witness ==
    /\ Synthesized
    /\ ~args.highlight_words
    /\ Len(args.transcript) = 2
    /\ args.transcript[1].words = <<>>
    /\ args.transcript[2].words # <<>>
    /\ value.out[1][1].end = 0
    /\ value.out[2][1].end = 2

\* The entries of highlight cue j of a segment, the emphasized word counted
\* with its markup or without
CueEntries(text_words, j, markup) ==
    [n \in DOMAIN text_words |->
        [word |-> IF n = j THEN HighlightWord(text_words[n]) ELSE text_words[n],
         length |-> IF n = j /\ markup THEN Len(HighlightWord(text_words[n]))
                    ELSE Len(text_words[n])]]

\* every word is spoken for a while, so cue j of a segment that starts with
\* its first word highlights word j
HighlightCueTexts(markup) ==
    \A i \in DOMAIN args.transcript :
        (args.transcript[i].words # <<>> /\ args.transcript[i].longest_speaker = NoneVal) =>
            \A j \in DOMAIN args.transcript[i].words :
                /\ j \in DOMAIN value.out[i]
                /\ value.out[i][j].text
                     = PackedText(CueEntries([n \in DOMAIN args.transcript[i].words |->
                                                args.transcript[i].words[n].word],
                                             j, markup),
                                  args.maxLineWidth)

\* C28 as stated: in a highlight cue the emphasized word is wrapped by its
\* length with the markup '<u>' and '</u>'.
C28_MarkupCounted ==
    (Synthesized /\ args.highlight_words /\ args.maxLineWidth >= 0) =>
        HighlightCueTexts(TRUE)

\* C28 amended: in a highlight cue the emphasized word is wrapped by the
\* length of the bare word, without the markup '<u>' and '</u>'.
C28_MarkupNotCounted ==
    (Synthesized /\ args.highlight_words /\ args.maxLineWidth >= 0) =>
        HighlightCueTexts(FALSE)

\* ' a' and ' bb' fit a budget of five; ' <u>bb</u>' stays on the line of ' a'
C28_Witness ==
    /\ Synthesized
    /\ args.highlight_words
    /\ args.maxLineWidth = 5
    /\ Len(args.transcript) = 1
    /\ args.transcript[1].longest_speaker = NoneVal
    /\ Len(args.transcript[1].words) = 3
    /\ args.transcript[1].words[1].word = <<" ", "a">>
    /\ args.transcript[1].words[2].word = <<" ", "b", "b">>
    /\ value.out[1][2].text = <<" ", "a", " ">> \o UOpen \o <<"b", "b">> \o UClose
                                \o NL \o args.transcript[1].words[3].word

\* C25: when write_result returns, exactly the five files named by the
\* prefix and '-result.json', '-subs.srt', '-subs.vtt', '-transcript.txt',
\* '-transcript.html' exist; the JSON file is written whatever the
\* highlight flag and the line width are, and holds the result as it was
\* received, without the speaker pseudo-word.
C25_FiveFilesJsonAsReceived ==
    /\ wpc = "returned" =>
          /\ Len(fs) = 5
          /\ {fs[i].name : i \in DOMAIN fs} = {source_name \o <<"-", p>> : p \in Postfixes}
          /\ {wret.files[i] : i \in DOMAIN wret.files} = {fs[i].name : i \in DOMAIN fs}
    /\ wpc # "json" =>
          /\ fs # <<>>
          /\ fs[1].name = source_name \o <<"-", "result.json">>
          /\ fs[1].content = [indent |-> 4, value |-> [result EXCEPT !.segments = orig]]

\* a labelled segment with words: the renderers have put the pseudo-word
\* into the segment, the JSON file does not hold it
C25_Witness ==
    /\ wpc = "returned"
    /\ highlight_words
    /\ Len(orig) = 1
    /\ orig[1].longest_speaker # NoneVal
    /\ Len(result.segments[1].words) > Len(orig[1].words)
    /\ fs[1].content.value.segments = orig

\* an exception has left the per-source loop
Failed == pending = "raised"

FailureState ==
    /\ Failed =>
          /\ pc \in {"cleanup", "done"}
          /\ archive = <<>>
          /\ ret = NoRet
          /\ outcome \in {"running", "raised"}
          /\ pc = "done" => outcome = "raised"
    /\ (pc = "done") <=> (outcome # "running")
    /\ outcome \in {"running", "returned", "error", "raised"}

FailureStep ==
    /\ (pc \in {"recognize", "diarize"} /\ pending' = "raised") =>
          (pc' = "cleanup" /\ UNCHANGED <<calls, k, fs, text, vtt, download>>)
    /\ Failed => UNCHANGED <<calls, k, fs, pending, archive, ret, text, vtt, download>>
    /\ outcome # "running" => UNCHANGED <<outcome, ret, pc>>

\* How far a dispatch has come: every step takes it further, up to a bound
Progress ==
    LET inLoop == 12 * k + reports
        inWrite == CASE wpc = "json" -> 0 [] wpc = "vtt" -> 1 [] wpc = "srt" -> 2
                     [] wpc = "html" -> 3 [] wpc = "files" -> 4 [] OTHER -> 5
    IN CASE pc = "entry" -> 0
         [] pc = "get_source" -> 1
         [] pc = "loop" -> inLoop + 2
         [] pc \in {"recognize", "override"} -> inLoop + 3
         [] pc = "diarize" -> inLoop + 4
         [] pc = "post" -> inLoop + 5
         [] pc = "write" -> inLoop + 6 + inWrite
         [] pc = "cleanup" -> 12 * (MaxSources + 2) + MaxReports + Len(removals)
         [] OTHER -> 12 * (MaxSources + 3) + MaxReports

\* Where a dispatch that has not ended stands, a step is left: write_result
\* is at one of its steps while the dispatcher waits for it, the loop is at
\* a source or past the last, and the removals have not passed the sources.
NotStuck ==
    /\ pc \in {"entry", "get_source", "loop", "recognize", "override", "diarize", "post",
               "write", "cleanup", "done"}
    /\ pc = "entry" => req.entry \in {"full", "extra"}
    /\ pc = "loop" => k \in 1..(Len(sources) + 1)
    /\ pc \in {"recognize", "override", "diarize", "post", "write"} => k \in DOMAIN sources
    /\ pc = "write" => wpc \in {"json", "vtt", "srt", "html", "files", "returned", "raised"}
    /\ pc = "cleanup" => Len(removals) <= Len(sources)

\* C26: an exception of the recognition or the diarization call for source
\* k is not caught: the dispatch raises it, no later source is processed, no
\* archive is created and nothing is returned; every dispatch ends (each
\* step takes it further and only an ended dispatch has no step left), as
\* completed or as failed, and stays so.
C26_FailurePropagates ==
    /\ []FailureState
    /\ [][FailureStep /\ Progress' > Progress]_vars
    /\ []NotStuck

\* the diarization of the second of two sources raised, after the files of
\* the first were written
C26_Witness ==
    /\ outcome = "raised"
    /\ Len(sources) = 2
    /\ calls = <<1, 2>>
    /\ merged = <<1>>
    /\ Len(fs) = 5
    /\ archive = <<>>

\* The whole time units of [s, e] that the intervals of a speaker cover,
\* counted once per interval
RECURSIVE Covered(_, _, _, _)
Covered(ivs, spk, s, e) ==
    IF ivs = <<>> THEN 0
    ELSE Covered(Tail(ivs), spk, s, e)
           + (IF Head(ivs).speaker = spk
              THEN Cardinality({t \in s..(e - 1) :
                                  Head(ivs).start <= t /\ t + 1 <= Head(ivs).end})
              ELSE 0)

SpeakersOf(ivs) == {ivs[i].speaker : i \in DOMAIN ivs}

EarliestStart(ivs, spk) ==
    CHOOSE m \in 0..MaxTime :
        /\ \E i \in DOMAIN ivs : ivs[i].speaker = spk /\ ivs[i].start = m
        /\ \A i \in DOMAIN ivs : ivs[i].speaker = spk => m <= ivs[i].start

\* label is the label the claim gives the span [s, e]
RightLabel(ivs, s, e, label) ==
    IF \A spk \in SpeakersOf(ivs) : Covered(ivs, spk, s, e) = 0
    THEN label = NoneVal
    ELSE /\ label \in SpeakersOf(ivs)
         /\ \A o \in SpeakersOf(ivs) :
               /\ Covered(ivs, label, s, e) >= Covered(ivs, o, s, e)
               /\ Covered(ivs, label, s, e) = Covered(ivs, o, s, e) =>
                     EarliestStart(ivs, label) <= EarliestStart(ivs, o)

OwnChoice(thread) ==
    \A i \in DOMAIN thread.runs :
        thread.runs[i] = IF thread.request.diarization THEN 1 ELSE 0

\* C29: each request's results are diarized according to that request's own
\* choice: on every thread the merger has run exactly once on each processed
\* source if the request enabled diarization and never if it disabled it,
\* also when the requests of two threads interleave on one transcriber.
C29_OwnChoiceDecides ==
    \A t \in DOMAIN threads : OwnChoice(threads[t])

\* C29, one request at a time: a dispatch that returned ran the merger once
\* on each of its sources, in order, if diarization was chosen, and never
\* otherwise.
C29_AloneOwnChoice ==
    (pc = "done" /\ outcome = "returned" /\ op = "") =>
        merged = IF req.diarization THEN [i \in 1..Len(sources) |-> i] ELSE <<>>

C29_AloneWitness ==
    /\ pc = "done" /\ outcome = "returned" /\ op = ""
    /\ req.entry = "extra" /\ req.diarization
    /\ merged = <<1>>

CaptionPostfixes == {"subs.srt", "subs.vtt", "transcript.txt", "transcript.html"}

\* C30: when a renderer (VTT, SRT or HTML) raises on a malformed segment,
\* write_result ends with that exception and returns nothing; none of the
\* .srt, .vtt, .txt and .html files of the source has been written, whole or
\* in part, and the JSON file, written before rendering started, is the only
\* file of the source.
C30_FailureLeavesOnlyJson ==
    wpc = "raised" =>
        /\ failed_in \in {"vtt", "srt", "html"}
        /\ wret = NoRet
        /\ \A i \in DOMAIN fs :
              fs[i].name \notin {source_name \o <<"-", p>> : p \in CaptionPostfixes}
        /\ Len(fs) = 1
        /\ fs[1].name = source_name \o <<"-", "result.json">>

\* the VTT renderer raised on the second segment, after the block of the
\* first one was rendered
C30_Witness ==
    /\ wpc = "raised"
    /\ failed_in = "vtt"
    /\ Len(orig) = 2
    /\ orig[2].start < 0
    /\ Len(vtt_cues) = 2
    /\ Len(vtt_cues[1]) = 1
    /\ subs.vtt # <<>>

\* the HTML renderer raised after the VTT and SRT renderers returned
C30_WitnessHtml ==
    /\ wpc = "raised"
    /\ failed_in = "html"
    /\ subs.vtt # <<>>
    /\ subs.srt # <<>>

====
